---- MODULE Spec2Model ----
(***************************************************************************)
(* A model of the NotePlan note store (src/src/services/noteService.ts):   *)
(* the NotePath location model, the file parser, the tree scanner, the     *)
(* 5-second cache and the store operations, over a small filesystem.       *)
(*                                                                         *)
(* Strings are sequences of one-character strings, so that startsWith,     *)
(* split, trim, the filename sanitation and path.join are computed as the  *)
(* code computes them.  A filesystem path is a sequence of names from an   *)
(* abstract root <<>>; the NotePlan base directory is the one-name path    *)
(* NOTEPLAN_BASE_PATH (the long prefix under the home directory is one    *)
(* name).                                                                  *)
(* Times are milliseconds on a clock whose origin is shifted so that the   *)
(* values fit TLC's integers;       Date.now(), the file times and the   *)
(* ISO strings made from them are all that clock's value.                  *)
(***************************************************************************)
EXTENDS Integers, Sequences, FiniteSets, TLC

VARIABLES
    fs,               \* the disk: path -> [kind, content, mtime, birthtime]
    notesDb,          \* the in-memory fallback list (module constant array)
    notesCache,       \* let notesCache: Note[]
    cacheIsDb,        \* notesCache and notesDb are the same array object
    lastCacheUpdate,  \* let lastCacheUpdate: number
    builtAt,          \* history: the time the array in notesCache was built
    now,              \* the clock (Date.now())
    last,             \* history: the last store call, its inputs and result
    calls,            \* history: number of store calls made
    ticks,            \* history: number of clock advances
    exts,             \* history: number of external writes
    twin,             \* a second store that is given the same calls: its state and last result
    scan              \* the position of a load of the notes that is under way

vars == <<fs, notesDb, notesCache, cacheIsDb, lastCacheUpdate, builtAt, now,
          last, calls, ticks, exts, twin, scan>>

----------------------------------------------------------------------------
(* Strings *)

sEmpty == <<>>
sSlash == <<"/">>
sDot == <<".">>
sDotDot == <<".", ".">>
sCalendar == <<"C", "a", "l", "e", "n", "d", "a", "r">>
sCalendarSlash == sCalendar \o sSlash
sNotes == <<"N", "o", "t", "e", "s">>
sDailyMarker == <<"[", "d", "a", "i", "l", "y", "-", "n", "o", "t", "e", "]">>
sMd == <<".", "m", "d">>
sTxt == <<".", "t", "x", "t">>
sNotePrefix == <<"n", "o", "t", "e", "-">>
sCalendarPrefix == <<"c", "a", "l", "e", "n", "d", "a", "r", "-">>
sHash == <<"#", " ">>
sFrontmatter == <<"-", "-", "-">>
sTitleField == <<"t", "i", "t", "l", "e", ":">>
sNL == <<"\n">>

Letters ==
    {"a", "b", "c", "d", "e", "f", "g", "h", "i", "j", "k", "l", "m", "n", "o",
     "p", "q", "r", "s", "t", "u", "v", "w", "x", "y", "z",
     "A", "B", "C", "D", "E", "F", "G", "H", "I", "J", "K", "L", "M", "N", "O",
     "P", "Q", "R", "S", "T", "U", "V", "W", "X", "Y", "Z"}
DigitChars == <<"0", "1", "2", "3", "4", "5", "6", "7", "8", "9">>
DigitSet == {DigitChars[i] : i \in 1..10}
Whitespace == {" ", "\n", "\t"}

Min(a, b) == IF a < b THEN a ELSE b

StartsWith(s, p) == Len(s) >= Len(p) /\ SubSeq(s, 1, Len(p)) = p
EndsWith(s, p) == Len(s) >= Len(p) /\ SubSeq(s, Len(s) - Len(p) + 1, Len(s)) = p
Substring(s, from) == SubSeq(s, from + 1, Len(s))

SetMin(S) == CHOOSE i \in S : \A j \in S : i <= j
SetMax(S) == CHOOSE i \in S : \A j \in S : i >= j

\* s.trim(): from the first to the last character that is not whitespace
Trim(s) ==
    LET solid == {i \in 1..Len(s) : s[i] \notin Whitespace}
    IN  IF solid = {} THEN <<>> ELSE SubSeq(s, SetMin(solid), SetMax(solid))

\* s.split(c) for a one-character separator: the pieces between the
\* separators, always at least one piece
Split(s, c) ==
    LET seps == {i \in 1..Len(s) : s[i] = c}
        n == Cardinality(seps)
        sep(k) == CHOOSE i \in seps : Cardinality({j \in seps : j < i}) = k - 1
    IN  [k \in 1..(n + 1) |->
            SubSeq(s, IF k = 1 THEN 1 ELSE sep(k - 1) + 1,
                      IF k = n + 1 THEN Len(s) ELSE sep(k) - 1)]

\* parts.join(sep)
RECURSIVE Join(_, _)
Join(parts, sep) ==
    IF parts = <<>> THEN <<>>
    ELSE IF Len(parts) = 1 THEN parts[1]
    ELSE parts[1] \o sep \o Join(Tail(parts), sep)

\* the decimal digits of a number, as a template literal writes them
RECURSIVE Digits(_)
Digits(n) ==
    IF n < 10 THEN <<DigitChars[n + 1]>>
    ELSE Append(Digits(n \div 10), DigitChars[(n % 10) + 1])

\* .replace(/-/g, '')
StripDashes(s) == SelectSeq(s, LAMBDA c : c # "-")

\* .replace(/\s+/g, '-'): each maximal run of whitespace becomes one hyphen
RECURSIVE CollapseWhitespace(_, _)
CollapseWhitespace(s, inRun) ==
    IF s = <<>> THEN <<>>
    ELSE IF Head(s) \in Whitespace
         THEN (IF inRun THEN <<>> ELSE <<"-">>) \o CollapseWhitespace(Tail(s), TRUE)
         ELSE <<Head(s)>> \o CollapseWhitespace(Tail(s), FALSE)

MaxStemLen == 50

\* title.replace(/[^a-zA-Z0-9\s-_]/g, '').replace(/\s+/g, '-').substring(0, 50)
sanitizedTitle(title) ==
    LET kept == SelectSeq(title, LAMBDA c :
                    c \in Letters \cup DigitSet \cup Whitespace \cup {"-", "_"})
        hyph == CollapseWhitespace(kept, FALSE)
    IN  SubSeq(hyph, 1, Min(MaxStemLen, Len(hyph)))

----------------------------------------------------------------------------
(* Paths: path.join, path.dirname, path.basename, path.extname *)

\* path.join(base, rel): the segments of rel applied to base, "" and "."
\* dropped, ".." popping a name (the root has no parent)
RECURSIVE ApplySegments(_, _)
ApplySegments(base, segs) ==
    IF segs = <<>> THEN base
    ELSE LET s == Head(segs)
             nb == IF s = sEmpty \/ s = sDot THEN base
                   ELSE IF s = sDotDot
                        THEN (IF base = <<>> THEN <<>>
                              ELSE SubSeq(base, 1, Len(base) - 1))
                        ELSE Append(base, s)
         IN  ApplySegments(nb, Tail(segs))

pathJoin(base, rel) == ApplySegments(base, Split(rel, "/"))

dirname(p) == IF p = <<>> THEN <<>> ELSE SubSeq(p, 1, Len(p) - 1)
basenameOf(p) == p[Len(p)]

\* the index of the last "." of a name, 0 when there is none
RECURSIVE LastDot(_, _)
LastDot(name, i) ==
    IF i = 0 THEN 0 ELSE IF name[i] = "." THEN i ELSE LastDot(name, i - 1)

\* path.extname: from the last "." of the base name; "" when there is none or
\* when the only "." is the first character
extname(p) ==
    LET name == basenameOf(p)
        d == LastDot(name, Len(name))
    IN  IF d <= 1 THEN sEmpty ELSE SubSeq(name, d, Len(name))

\* path.basename(p, ext)
basenameNoExt(p) ==
    LET name == basenameOf(p)
        ext == extname(p)
    IN  SubSeq(name, 1, Len(name) - Len(ext))

sBase == <<"n", "p">>
NOTEPLAN_BASE_PATH == <<sBase>>
CALENDAR_PATH == Append(NOTEPLAN_BASE_PATH, sCalendar)
NOTES_PATH == Append(NOTEPLAN_BASE_PATH, sNotes)

CACHE_DURATION == 5000

----------------------------------------------------------------------------
(* NotePath *)

createNotePath(type, path) == [type |-> type, path |-> path]

getFileSystemPath(notePath) ==
    LET basePath == IF notePath.type = "calendar" THEN CALENDAR_PATH ELSE NOTES_PATH
    IN  IF notePath.path = sSlash THEN basePath
        ELSE pathJoin(basePath, notePath.path)

formatLocationString(notePath) ==
    IF notePath.type = "calendar" THEN sDailyMarker ELSE notePath.path

\* a check that compares the whole string only
locationRejectedExact(str) == str = sCalendar \/ str = sDailyMarker

\* parseLocationString throws for the Calendar strings
locationRejected(str) ==
    str = sCalendar \/ StartsWith(str, sCalendarSlash) \/ str = sDailyMarker

parseLocationString(str) ==
    IF str = sEmpty \/ str = sSlash THEN createNotePath("note", sSlash)
    ELSE createNotePath("note", str)

isRootPath(notePath) == notePath.path = sSlash

----------------------------------------------------------------------------
(* The filesystem, as the fs calls of the service see it *)

\* writable is the write permission of the entry; a directory without it
\* lets nothing be created, removed or renamed in it (EACCES)
DirEntry ==
    [kind |-> "dir", content |-> <<>>, mtime |-> 0, birthtime |-> 0, writable |-> TRUE,
     readable |-> TRUE]
ReadOnlyDirEntry == [DirEntry EXCEPT !.writable = FALSE]
FileEntry(content, mtime, birthtime) ==
    [kind |-> "file", content |-> content, mtime |-> mtime, birthtime |-> birthtime,
     writable |-> TRUE, readable |-> TRUE]
\* entries whose permissions deny reading: readdirSync and readFileSync throw
UnreadableDirEntry == [DirEntry EXCEPT !.readable = FALSE]
UnreadableFileEntry(content, mtime, birthtime) ==
    [FileEntry(content, mtime, birthtime) EXCEPT !.readable = FALSE]

existsSync(f, p) == p \in DOMAIN f
isDirectory(f, p) == p \in DOMAIN f /\ f[p].kind = "dir"
isFile(f, p) == p \in DOMAIN f /\ f[p].kind = "file"

IsPrefix(a, b) == Len(a) <= Len(b) /\ SubSeq(b, 1, Len(a)) = a
Prefixes(p) == {SubSeq(p, 1, n) : n \in 0..Len(p)}

\* fs.readdirSync(dir): the entries directly under dir
Children(f, dir) ==
    {p \in DOMAIN f : Len(p) = Len(dir) + 1 /\ IsPrefix(dir, p)}

canWriteDir(f, d) == isDirectory(f, d) /\ f[d].writable

\* fs.mkdirSync(p, {recursive: true}) succeeds unless a file is in the way or
\* the directory the first new one goes into is not writable
mkdirOk(f, p) ==
    /\ \A q \in Prefixes(p) : ~isFile(f, q)
    /\ \/ p \in DOMAIN f
       \/ \E q \in Prefixes(p) :
              /\ q \in DOMAIN f /\ f[q].writable
              /\ \A r \in Prefixes(p) : Len(r) > Len(q) => r \notin DOMAIN f
\* a mkdir that is not recursive by mistake: only the last directory is made
mkdirSyncLeafOnly(f, p) ==
    [q \in DOMAIN f \cup {p} |-> IF q \in DOMAIN f THEN f[q] ELSE DirEntry]
mkdirSync(f, p) ==
    [q \in DOMAIN f \cup Prefixes(p) |-> IF q \in DOMAIN f THEN f[q] ELSE DirEntry]

\* fs.writeFileSync(p, content): p is a file, or is absent from a writable
\* directory
writeOk(f, p) ==
    /\ p # <<>> /\ ~isDirectory(f, p)
    /\ isFile(f, p) \/ canWriteDir(f, dirname(p))
writeFileSync(f, p, content, t) ==
    [q \in DOMAIN f \cup {p} |->
        IF q = p
        THEN IF p \in DOMAIN f
             THEN [f[p] EXCEPT !.content = content, !.mtime = t]
             ELSE FileEntry(content, t, t)
        ELSE f[q]]

\* fs.renameSync(from, to): rename(2).  from exists, the parents of from and
\* of to are writable directories, to is not inside from, and an existing to
\* is a file replaced by a file or an empty directory replaced by a directory
renameOk(f, from, to) ==
    /\ from # <<>> /\ to # <<>>
    /\ existsSync(f, from)
    /\ isDirectory(f, dirname(to))
    /\ from # to => canWriteDir(f, dirname(from)) /\ canWriteDir(f, dirname(to))
    /\ ~(IsPrefix(from, to) /\ from # to)
    /\ ~(IsPrefix(to, from) /\ from # to)
    /\ existsSync(f, to) /\ to # from =>
          /\ f[to].kind = f[from].kind
          /\ Children(f, to) = {}

Rebase(p, from, to) == to \o SubSeq(p, Len(from) + 1, Len(p))

renameSync(f, from, to) ==
    IF from = to THEN f
    ELSE LET moved == {p \in DOMAIN f : IsPrefix(from, p)}
             kept == (DOMAIN f \ moved) \ {to}
         IN  [q \in kept \cup {Rebase(p, from, to) : p \in moved} |->
                IF q \in kept THEN f[q]
                ELSE f[Rebase(q, to, from)]]

isNotePlanAvailable(f) ==
    /\ existsSync(f, NOTEPLAN_BASE_PATH)
    /\ existsSync(f, CALENDAR_PATH)
    /\ existsSync(f, NOTES_PATH)

----------------------------------------------------------------------------
(* Notes *)

NoPath == <<>>     \* filePath of a note that has none (the fallback notes)

\* the title of a front-matter block: lines[0] is "---"; the lines after it up
\* to the closing "---" are searched for /^title:\s*(.+)$/
RECURSIVE FrontmatterTitle(_, _, _)
FrontmatterTitle(lines, i, filename) ==
    IF i > Len(lines) THEN filename
    ELSE IF lines[i] = sFrontmatter THEN filename
    ELSE IF StartsWith(lines[i], sTitleField) /\ Len(lines[i]) > Len(sTitleField)
         THEN Trim(Substring(lines[i], Len(sTitleField)))
         ELSE FrontmatterTitle(lines, i + 1, filename)

\* the first line that starts with "# " and is longer than that
RECURSIVE HeadingTitle(_, _, _)
HeadingTitle(lines, i, filename) ==
    IF i > Len(lines) THEN filename
    ELSE IF StartsWith(lines[i], sHash) /\ Len(lines[i]) > 2
         THEN Trim(Substring(lines[i], 2))
         ELSE HeadingTitle(lines, i + 1, filename)

extractTitle(content, filename) ==
    LET lines == Split(content, "\n")
        t1 == IF lines[1] = sFrontmatter
              THEN FrontmatterTitle(lines, 2, filename) ELSE filename
    IN  IF t1 = filename THEN HeadingTitle(lines, 1, filename) ELSE t1

noteId(location, filename) ==
    (IF location.type = "calendar" THEN sCalendarPrefix ELSE sNotePrefix) \o filename

\* parseNoteFile returns null when the file cannot be read
parseOk(f, filePath) == isFile(f, filePath) /\ f[filePath].readable

parseNoteFile(f, filePath, location) ==
    LET filename == basenameNoExt(filePath)
        content == f[filePath].content
    IN  [id |-> noteId(location, filename),
         title |-> extractTitle(content, filename),
         content |-> content,
         created |-> f[filePath].birthtime,
         modified |-> f[filePath].mtime,
         location |-> location,
         folder |-> formatLocationString(location),
         filePath |-> filePath,
         filename |-> filename]

----------------------------------------------------------------------------
(* The tree scanner.  readdirSync returns the entries of a directory in an  *)
(* order the filesystem chooses, so a scan is a set of possible sequences.  *)

RECURSIVE Perms(_)
Perms(S) ==
    IF S = {} THEN {<<>>}
    ELSE UNION {{<<x>> \o p : p \in Perms(S \ {x})} : x \in S}

isNoteFileName(name) == EndsWith(name, sMd) \/ EndsWith(name, sTxt)
isSkippedDirName(name) == StartsWith(name, <<".">>) \/ StartsWith(name, <<"@">>)

RECURSIVE scanNotesDirectory(_, _, _)
RECURSIVE scanItems(_, _, _)

\* the for loop of scanNotesDirectory over the items in one readdir order
scanItems(f, items, location) ==
    IF items = <<>> THEN {<<>>}
    ELSE LET item == Head(items)
             name == basenameOf(item)
             first ==
                 IF isFile(f, item) /\ isNoteFileName(name)
                 THEN IF parseOk(f, item) THEN {<<parseNoteFile(f, item, location)>>}
                      ELSE {<<>>}
                 ELSE IF isDirectory(f, item) /\ ~isSkippedDirName(name)
                 THEN LET subPath == IF location.path = sSlash THEN name
                                     ELSE location.path \o sSlash \o name
                      IN  scanNotesDirectory(f, item, createNotePath(location.type, subPath))
                 ELSE {<<>>}
         IN  {a \o b : a \in first, b \in scanItems(f, Tail(items), location)}

scanNotesDirectory(f, dirPath, location) ==
    IF ~isDirectory(f, dirPath) \/ ~f[dirPath].readable THEN {<<>>}
    ELSE UNION {scanItems(f, items, location) : items \in Perms(Children(f, dirPath))}

\* notes.sort((a, b) => b.modified - a.modified): stable, newest first
RECURSIVE sortByModifiedDesc(_)
InsertDesc(x, s) ==
    LET idx == {i \in 1..Len(s) : s[i].modified <= x.modified}
        k == IF idx = {} THEN Len(s) + 1 ELSE CHOOSE i \in idx : \A j \in idx : i <= j
    IN  SubSeq(s, 1, k - 1) \o <<x>> \o SubSeq(s, k, Len(s))
sortByModifiedDesc(s) ==
    IF s = <<>> THEN <<>>
    ELSE CHOOSE r \in {InsertDesc(Head(s), rest) : rest \in {sortByModifiedDesc(Tail(s))}} : TRUE

\* the possible results of loadNotesFromFileSystem when the directories exist
scanBothRoots(f) ==
    {sortByModifiedDesc(c \o n) :
        c \in scanNotesDirectory(f, CALENDAR_PATH, createNotePath("calendar", sSlash)),
        n \in scanNotesDirectory(f, NOTES_PATH, createNotePath("note", sSlash))}

----------------------------------------------------------------------------
(* The store state and the cache *)

\* the module-level state of the service, with the disk
Store(f, db, cache, isDb, lcu, built) ==
    [fs |-> f, notesDb |-> db, notesCache |-> cache, cacheIsDb |-> isDb,
     lastCacheUpdate |-> lcu, builtAt |-> built]

\* a store that forgets to drop its snapshot after a write
cacheKept(S) == S

\* notesCache = []; lastCacheUpdate = 0
clearCache(S) ==
    [S EXCEPT !.notesCache = <<>>, !.cacheIsDb = FALSE, !.lastCacheUpdate = 0]

\* an assignment to notesDb (push, notesDb[i] = ...): the cache sees it when
\* it is the same array
setDb(S, db) ==
    [S EXCEPT !.notesDb = db,
              !.notesCache = IF S.cacheIsDb THEN db ELSE S.notesCache]

\* the result of an operation: the state it leaves, and what it returns or throws
Out(S, ok, err, res) == [S |-> S, ok |-> ok, err |-> err, res |-> res]
Fail(S, err) == Out(S, FALSE, err, <<>>)

loadNotesFromFileSystem(S) ==
    IF ~isNotePlanAvailable(S.fs)
    THEN {[notes |-> S.notesDb, isDb |-> TRUE]}
    ELSE {[notes |-> n, isDb |-> FALSE] : n \in scanBothRoots(S.fs)}

\* a cache that still serves a snapshot of exactly the cache duration
cacheValidInclusive(S, t) ==
    Len(S.notesCache) > 0 /\ (t - S.lastCacheUpdate) <= CACHE_DURATION

cacheValid(S, t) ==
    Len(S.notesCache) > 0 /\ (t - S.lastCacheUpdate) < CACHE_DURATION

getAllNotes(S, t) ==
    IF cacheValid(S, t)
    THEN {[S |-> S, notes |-> S.notesCache, rescanned |-> FALSE]}
    ELSE {[S |-> [S EXCEPT !.notesCache = l.notes, !.cacheIsDb = l.isDb,
                           !.lastCacheUpdate = t, !.builtAt = t],
           notes |-> l.notes, rescanned |-> TRUE] : l \in loadNotesFromFileSystem(S)}

\* notes.find(note => note.id === id): <<note>>, or <<>> for undefined
findById(notes, id) ==
    LET idx == {i \in 1..Len(notes) : notes[i].id = id}
    IN  IF idx = {} THEN <<>>
        ELSE <<notes[CHOOSE i \in idx : \A j \in idx : i <= j]>>

\* notesDb.findIndex(note => note.id === id): 0 for -1
findIndexById(notes, id) ==
    LET idx == {i \in 1..Len(notes) : notes[i].id = id}
    IN  IF idx = {} THEN 0 ELSE CHOOSE i \in idx : \A j \in idx : i <= j

isDate8(id) == Len(id) = 8 /\ \A i \in 1..8 : id[i] \in DigitSet
isDateDashed(id) ==
    /\ Len(id) = 10
    /\ id[5] = "-" /\ id[8] = "-"
    /\ \A i \in {1, 2, 3, 4, 6, 7, 9, 10} : id[i] \in DigitSet

\* a lookup that knows no date forms
lookupByIdExactOnly(notes, id) == findById(notes, id)

\* the lookup of getNoteById in a snapshot
lookupById(notes, id) ==
    LET exact == findById(notes, id)
        d8 == IF isDate8(id) THEN findById(notes, sCalendarPrefix \o id) ELSE <<>>
        dd == IF isDateDashed(id)
              THEN findById(notes, sCalendarPrefix \o StripDashes(id)) ELSE <<>>
    IN  IF exact # <<>> THEN exact ELSE IF d8 # <<>> THEN d8 ELSE dd

\* g is a result of the getAllNotes call the operation starts with
getNoteByIdWith(g, id) == [S |-> g.S, note |-> lookupById(g.notes, id)]
getNoteById(S, t, id) == {getNoteByIdWith(g, id) : g \in getAllNotes(S, t)}

\* a filter that takes any path the target path is a string prefix of
inFolderByPrefix(note, target) ==
    /\ note.location.type = target.type
    /\ \/ target.path = sSlash
       \/ StartsWith(note.location.path, target.path)

\* the filter of getNotesByFolder
inFolder(note, target) ==
    /\ note.location.type = target.type
    /\ \/ note.location.path = target.path
       \/ target.path = sSlash
       \/ StartsWith(note.location.path, target.path \o sSlash)

getNotesByFolderWith(g, folder) ==
    IF locationRejected(folder) THEN Fail(g.S, "InvalidLocation")
    ELSE Out(g.S, TRUE, "",
             SelectSeq(g.notes, LAMBDA n : inFolder(n, parseLocationString(folder))))
getNotesByFolder(S, t, folder) ==
    {getNotesByFolderWith(g, folder) : g \in getAllNotes(S, t)}

----------------------------------------------------------------------------
(* createDailyNote, createNote *)

\* The clock stays within one UTC day, sToday, whose midnight is the clock's 0
sToday == <<"2", "0", "2", "5", "-", "0", "9", "-", "2", "9">>
DayMs == 24 * 60 * 60 * 1000

\* new Date(date) for a YYYY-MM-DD string is midnight UTC of that day, and
\* toISOString().split('T')[0] gives the string back; any other string is an
\* Invalid Date, for which toISOString throws
dateValid(date) == isDateDashed(date)
\* (the dates used are sToday and the day before it)
dateTime(date) == IF date = sToday THEN 0 ELSE 0 - DayMs

\* date.toISOString(): the day, then the time of day (written here as the
\* millisecond count of the day)
toISOString(day, ms) == day \o <<"T">> \o Digits(ms) \o <<"Z">>

defaultTemplate(dateStr, iso) ==
    sHash \o dateStr \o 
        <<"\n", "\n", "#", "#", " ", "T", "o", "d", "a", "y", "'", "s", " ",
          "P", "l", "a", "n", "\n", "-", " ", "[", " ", "]", "\n", "\n",
          "#", "#", " ", "N", "o", "t", "e", "s", "\n", "\n", "\n", "#",
          "#", " ", "R", "e", "f", "l", "e", "c", "t", "i", "o", "n", "\n",
          "\n", "\n", "-", "-", "-", "\n", "C", "r", "e", "a", "t", "e",
          "d", ":", " ">> \o iso

sDailyTitle == <<"D", "a", "i", "l", "y", " ", "N", "o", "t", "e", " ", "-", " ">>

\* options.date absent or "" is <<>>; options.content absent or "" is <<>>
createDailyNoteWith(g, t, date, content) ==
    IF date # <<>> /\ ~dateValid(date) THEN Fail(g.S, "InvalidDate")
    ELSE
    LET r == getNoteByIdWith(g, sCalendarPrefix \o StripDashes(IF date # <<>> THEN date ELSE sToday))
        day == IF date # <<>> THEN date ELSE sToday
        noteTime == IF date # <<>> THEN dateTime(date) ELSE t
        iso == toISOString(day, IF date # <<>> THEN 0 ELSE t)
        dateStr == StripDashes(day)
        id == sCalendarPrefix \o dateStr
        text == IF content # <<>> THEN content ELSE defaultTemplate(dateStr, iso)
        location == createNotePath("calendar", sSlash)
        filePath == Append(CALENDAR_PATH, dateStr \o sTxt)
    IN   IF r.note # <<>> THEN Fail(r.S, "AlreadyExists")
         ELSE IF isNotePlanAvailable(r.S.fs)
         THEN IF ~writeOk(r.S.fs, filePath) THEN Fail(r.S, "IOFailure")
              ELSE LET f2 == writeFileSync(r.S.fs, filePath, text, t)
                   IN  Out(clearCache([r.S EXCEPT !.fs = f2]), TRUE, "",
                           <<parseNoteFile(f2, filePath, location)>>)
         ELSE LET newNote == [id |-> id,
                              title |-> sDailyTitle \o dateStr,
                              content |-> text,
                              created |-> noteTime,
                              modified |-> noteTime,
                              location |-> location,
                              folder |-> formatLocationString(location),
                              filePath |-> NoPath,
                              filename |-> sEmpty]
              IN  Out(setDb(r.S, Append(r.S.notesDb, newNote)), TRUE, "", <<newNote>>)

\* an invalid date throws before the lookup reads the cache
createDailyNote(S, t, date, content) ==
    IF date # <<>> /\ ~dateValid(date) THEN {Fail(S, "InvalidDate")}
    ELSE {createDailyNoteWith(g, t, date, content) : g \in getAllNotes(S, t)}

\* the heading line for the title, an empty line, then the content
createContent(title, content) == sHash \o title \o sNL \o sNL \o content

createNote(S, t, title, content, folder) ==
    IF title = sEmpty THEN {Fail(S, "MissingField")}
    ELSE
    LET filename == sanitizedTitle(title) \o <<"-">> \o Digits(t)
        id == sNotePrefix \o filename
        text == createContent(title, content)
        fstr == IF folder = sEmpty THEN sSlash ELSE folder
        location == parseLocationString(fstr)
        targetPath == getFileSystemPath(location)
        needDir == location.path # sSlash /\ ~existsSync(S.fs, targetPath)
        f1 == IF needDir THEN mkdirSync(S.fs, targetPath) ELSE S.fs
        filePath == pathJoin(targetPath, filename \o sTxt)
    IN  IF locationRejected(fstr) THEN {Fail(S, "InvalidLocation")}
        ELSE IF isNotePlanAvailable(S.fs)
        THEN IF needDir /\ ~mkdirOk(S.fs, targetPath) THEN {Fail(S, "IOFailure")}
             ELSE IF ~writeOk(f1, filePath) THEN {Fail([S EXCEPT !.fs = f1], "IOFailure")}
             ELSE LET f2 == writeFileSync(f1, filePath, text, t)
                  IN  {Out(clearCache([S EXCEPT !.fs = f2]), TRUE, "",
                           <<parseNoteFile(f2, filePath, location)>>)}
        ELSE LET newNote == [id |-> id,
                             title |-> title,
                             content |-> text,
                             created |-> t,
                             modified |-> t,
                             location |-> location,
                             folder |-> formatLocationString(location),
                             filePath |-> NoPath,
                             filename |-> sEmpty]
             IN  {Out(setDb(S, Append(S.notesDb, newNote)), TRUE, "", <<newNote>>)}

----------------------------------------------------------------------------
(* updateNote, editNote *)

\* the index of the first line that starts with "# ", 0 when there is none
firstHeading(lines) ==
    LET idx == {i \in 1..Len(lines) : StartsWith(lines[i], sHash)}
    IN  IF idx = {} THEN 0 ELSE CHOOSE i \in idx : \A j \in idx : i <= j

\* a rule that puts the heading first whether or not there is one
rewriteHeadingPrepending(content, title) ==
    Join(<<sHash \o title, sEmpty>> \o Split(content, "\n"), sNL)

\* the heading rule of updateNote and renameNote: the first line starting with
\* "# " becomes "# " + title; without one, that line and an empty line go first
rewriteHeading(content, title) ==
    LET lines == Split(content, "\n")
        h == firstHeading(lines)
        out == IF h # 0 THEN [lines EXCEPT ![h] = sHash \o title]
               ELSE <<sHash \o title, sEmpty>> \o lines
    IN  Join(out, sNL)

\* updates: which of title, content and folder are given, and their values
Updates(hasTitle, title, hasContent, content, hasFolder, folder) ==
    [hasTitle |-> hasTitle, title |-> title, hasContent |-> hasContent,
     content |-> content, hasFolder |-> hasFolder, folder |-> folder]
contentOnly(content) == Updates(FALSE, sEmpty, TRUE, content, FALSE, sEmpty)

\* a spread that also moves the location to the folder given
spreadUpdatesRelocating(note, u, t) ==
    [note EXCEPT !.title = IF u.hasTitle THEN u.title ELSE @,
                 !.content = IF u.hasContent THEN u.content ELSE @,
                 !.folder = IF u.hasFolder THEN u.folder ELSE @,
                 !.location = IF u.hasFolder THEN createNotePath("note", u.folder) ELSE @,
                 !.modified = t]

\* {...note, ...updates, modified}
spreadUpdates(note, u, t) ==
    [note EXCEPT !.title = IF u.hasTitle THEN u.title ELSE @,
                 !.content = IF u.hasContent THEN u.content ELSE @,
                 !.folder = IF u.hasFolder THEN u.folder ELSE @,
                 !.modified = t]

updateNoteWith(g, t, id, u) ==
    LET r == getNoteByIdWith(g, id)
    IN
     IF r.note = <<>> THEN Fail(r.S, "NotFound")
     ELSE LET existingNote == r.note[1]
          IN  IF isNotePlanAvailable(r.S.fs) /\ existingNote.filePath # NoPath
              THEN LET c1 == IF u.hasContent THEN u.content ELSE existingNote.content
                       newContent == IF u.hasTitle THEN rewriteHeading(c1, u.title) ELSE c1
                   IN  IF ~writeOk(r.S.fs, existingNote.filePath)
                       THEN Fail(r.S, "IOFailure")
                       ELSE LET f2 == writeFileSync(r.S.fs, existingNote.filePath, newContent, t)
                            IN  Out(clearCache([r.S EXCEPT !.fs = f2]), TRUE, "",
                                    <<parseNoteFile(f2, existingNote.filePath,
                                                    existingNote.location)>>)
              ELSE LET noteIndex == findIndexById(r.S.notesDb, id)
                   IN  IF noteIndex = 0 THEN Fail(r.S, "NotFound")
                       ELSE LET updatedNote == spreadUpdates(r.S.notesDb[noteIndex], u, t)
                            IN  Out(setDb(r.S, [r.S.notesDb EXCEPT ![noteIndex] = updatedNote]),
                                    TRUE, "", <<updatedNote>>)

updateNote(S, t, id, u) == {updateNoteWith(g, t, id, u) : g \in getAllNotes(S, t)}

matchAt(s, pat, i) ==
    i + Len(pat) - 1 <= Len(s) /\ SubSeq(s, i, i + Len(pat) - 1) = pat

\* content.match(new RegExp(escaped old_text, 'g')).length: the matches taken
\* left to right without overlap; the empty pattern matches at every position
\* the first match at or after position i, 0 when there is none
nextMatch(s, pat, i) ==
    LET m == {j \in i..(Len(s) + 1) : matchAt(s, pat, j)}
    IN  IF m = {} THEN 0 ELSE SetMin(m)

RECURSIVE countFrom(_, _, _)
countFrom(s, pat, i) ==
    IF pat = <<>> THEN Len(s) + 1
    ELSE LET j == nextMatch(s, pat, i)
         IN  IF j = 0 THEN 0 ELSE 1 + countFrom(s, pat, j + Len(pat))

\* a count that stops at the first match
occurrencesUpToOne(content, old_text) ==
    IF nextMatch(content, old_text, 1) = 0 THEN 0 ELSE 1

occurrences(content, old_text) == countFrom(content, old_text, 1)

\* the replacement text of String.prototype.replace for a string pattern:
\* $$ is "$", $& the match, $' the text after it (the pattern for the text
\* before the match is left out: its character cannot be written here)
RECURSIVE substitution(_, _, _, _)
substitution(rep, matched, before, after) ==
    IF rep = <<>> THEN <<>>
    ELSE IF Head(rep) = "$" /\ Len(rep) >= 2 /\ rep[2] \in {"$", "&", "'"}
    THEN (CASE rep[2] = "$" -> <<"$">>
            [] rep[2] = "&" -> matched
            [] OTHER -> after)
         \o substitution(SubSeq(rep, 3, Len(rep)), matched, before, after)
    ELSE <<Head(rep)>> \o substitution(Tail(rep), matched, before, after)

\* content.replace(pat, rep) (all = FALSE) and content.replaceAll(pat, rep)
RECURSIVE replaceFrom(_, _, _, _, _)
replaceFrom(s, pat, rep, i, all) ==
    LET j == nextMatch(s, pat, i)
    IN  IF j = 0 THEN SubSeq(s, i, Len(s))
        ELSE SubSeq(s, i, j - 1)
             \o substitution(rep, pat, SubSeq(s, 1, j - 1), SubSeq(s, j + Len(pat), Len(s)))
             \o (IF ~all THEN SubSeq(s, j + Len(pat), Len(s))
                 ELSE IF pat # <<>> THEN replaceFrom(s, pat, rep, j + Len(pat), all)
                 ELSE IF j <= Len(s) THEN <<s[j]>> \o replaceFrom(s, pat, rep, j + 1, all)
                 ELSE <<>>)

replaceText(content, old_text, new_text, replace_all) ==
    replaceFrom(content, old_text, new_text, 1, replace_all)

\* the outcomes are a set: updateNote reads the cache again
editNoteWith(g, t, id, old_text, new_text, replace_all) ==
    LET r == getNoteByIdWith(g, id)
    IN  IF r.note = <<>> THEN {Fail(r.S, "NotFound")}
        ELSE LET content == r.note[1].content
                 n == occurrences(content, old_text)
             IN  IF n = 0 THEN {Fail(r.S, "TextNotFound")}
                 ELSE IF n > 1 /\ ~replace_all THEN {Fail(r.S, "AmbiguousMatch")}
                 ELSE updateNote(r.S, t, id,
                          contentOnly(replaceText(content, old_text, new_text, replace_all)))

editNote(S, t, id, old_text, new_text, replace_all) ==
    UNION {editNoteWith(g, t, id, old_text, new_text, replace_all) : g \in getAllNotes(S, t)}

----------------------------------------------------------------------------
(* renameNote, moveNote *)

\* a guard that looks at the id alone, and a guard that is never raised
isCalendarTargetByIdOnly(note, id) == StartsWith(id, sCalendarPrefix)
isCalendarTargetNever(note, id) == FALSE

isCalendarTarget(note, id) ==
    note.location.type = "calendar" \/ StartsWith(id, sCalendarPrefix)

\* the content the fallback branch of renameNote writes
fallbackRenamedContent(content, newTitle) ==
    LET lines == Split(content, "\n")
    IN  sHash \o newTitle \o sNL \o sNL \o Join(SubSeq(lines, 3, Len(lines)), sNL)

\* a collision check that is never raised
pathOccupiedNever(f, newFilePath, filePath) == FALSE

\* fs.existsSync(newFilePath) && newFilePath !== existingNote.filePath
pathOccupied(f, newFilePath, filePath) ==
    existsSync(f, newFilePath) /\ newFilePath # filePath

renameNoteWith(g, t, id, newTitle) ==
    LET r == getNoteByIdWith(g, id)
    IN
     IF r.note = <<>> THEN Fail(r.S, "NotFound")
     ELSE LET existingNote == r.note[1]
              stem == sanitizedTitle(newTitle)
          IN  IF isCalendarTarget(existingNote, id) THEN Fail(r.S, "Forbidden")
              ELSE IF existingNote.filePath = NoPath THEN Fail(r.S, "NoFilePath")
              ELSE IF isNotePlanAvailable(r.S.fs)
              THEN LET ext == extname(existingNote.filePath)
                       dirPath == dirname(existingNote.filePath)
                       newFilePath == pathJoin(dirPath, stem \o ext)
                       content == rewriteHeading(existingNote.content, newTitle)
                       f1 == writeFileSync(r.S.fs, existingNote.filePath, content, t)
                       f2 == renameSync(f1, existingNote.filePath, newFilePath)
                   IN  IF pathOccupied(r.S.fs, newFilePath, existingNote.filePath)
                       THEN Fail(r.S, "AlreadyExists")
                       ELSE IF ~writeOk(r.S.fs, existingNote.filePath)
                       THEN Fail(r.S, "IOFailure")
                       ELSE IF ~renameOk(f1, existingNote.filePath, newFilePath)
                       THEN Fail([r.S EXCEPT !.fs = f1], "IOFailure")
                       ELSE Out(clearCache([r.S EXCEPT !.fs = f2]), TRUE, "",
                                IF parseOk(f2, newFilePath)
                                THEN <<parseNoteFile(f2, newFilePath, existingNote.location)>>
                                ELSE <<>>)
              ELSE LET noteIndex == findIndexById(r.S.notesDb, id)
                   IN  IF noteIndex = 0 THEN Fail(r.S, "NotFound")
                       ELSE LET note == r.S.notesDb[noteIndex]
                                updatedNote ==
                                    [note EXCEPT !.id = sNotePrefix \o stem,
                                                 !.title = newTitle,
                                                 !.content = fallbackRenamedContent(note.content, newTitle),
                                                 !.modified = t]
                            IN  Out(setDb(r.S, [r.S.notesDb EXCEPT ![noteIndex] = updatedNote]),
                                    TRUE, "", <<updatedNote>>)

renameNote(S, t, id, newTitle) ==
    {renameNoteWith(g, t, id, newTitle) : g \in getAllNotes(S, t)}

moveNoteWith(g, t, id, targetFolder) ==
    LET r == getNoteByIdWith(g, id)
    IN
     IF r.note = <<>> THEN Fail(r.S, "NotFound")
     ELSE LET existingNote == r.note[1]
              targetLocation == parseLocationString(targetFolder)
          IN  IF isCalendarTarget(existingNote, id) THEN Fail(r.S, "Forbidden")
              ELSE IF existingNote.filePath = NoPath THEN Fail(r.S, "NoFilePath")
              ELSE IF locationRejected(targetFolder) THEN Fail(r.S, "InvalidLocation")
              ELSE IF isNotePlanAvailable(r.S.fs)
              THEN LET targetPath == getFileSystemPath(targetLocation)
                       needDir == targetLocation.path # sSlash /\ ~existsSync(r.S.fs, targetPath)
                       f1 == IF needDir THEN mkdirSync(r.S.fs, targetPath) ELSE r.S.fs
                       newFilePath == pathJoin(targetPath, basenameOf(existingNote.filePath))
                       f2 == renameSync(f1, existingNote.filePath, newFilePath)
                   IN  IF needDir /\ ~mkdirOk(r.S.fs, targetPath) THEN Fail(r.S, "IOFailure")
                       ELSE IF pathOccupied(f1, newFilePath, existingNote.filePath)
                       THEN Fail([r.S EXCEPT !.fs = f1], "AlreadyExists")
                       ELSE IF ~renameOk(f1, existingNote.filePath, newFilePath)
                       THEN Fail([r.S EXCEPT !.fs = f1], "IOFailure")
                       ELSE Out(clearCache([r.S EXCEPT !.fs = f2]), TRUE, "",
                                IF parseOk(f2, newFilePath)
                                THEN <<parseNoteFile(f2, newFilePath, targetLocation)>>
                                ELSE <<>>)
              ELSE LET noteIndex == findIndexById(r.S.notesDb, id)
                   IN  IF noteIndex = 0 THEN Fail(r.S, "NotFound")
                       ELSE LET note == r.S.notesDb[noteIndex]
                                updatedNote ==
                                    [note EXCEPT !.location = targetLocation,
                                                 !.folder = formatLocationString(targetLocation),
                                                 !.modified = t]
                            IN  Out(setDb(r.S, [r.S.notesDb EXCEPT ![noteIndex] = updatedNote]),
                                    TRUE, "", <<updatedNote>>)

moveNote(S, t, id, targetFolder) ==
    {moveNoteWith(g, t, id, targetFolder) : g \in getAllNotes(S, t)}

----------------------------------------------------------------------------
(* renameFolder, createFolder *)

underFolder(note, oldPath) ==
    /\ note.location.type = "note"
    /\ \/ note.location.path = oldPath
       \/ StartsWith(note.location.path, oldPath \o sSlash)

\* a new path below the old one
renamedPathBelow(oldPath, name) == oldPath \o sSlash \o name

\* the new full path: the last segment of the old path replaced by the name
renamedPath(oldPath, name) ==
    LET pathParts == Split(oldPath, "/")
    IN  Join([pathParts EXCEPT ![Len(pathParts)] = name], sSlash)

\* note.location.path.replace(oldPath + '/', newPath + '/') on a path that
\* starts with oldPath + '/'
movedPath(path, oldPath, newPath) ==
    IF path = oldPath THEN newPath
    ELSE newPath \o SubSeq(path, Len(oldPath) + 1, Len(path))

\* the forEach of the fallback branch: each affected note replaces the first
\* entry of notesDb that has its id
RECURSIVE relocateAll(_, _, _, _, _)
relocateAll(db, affected, oldPath, newPath, t) ==
    IF affected = <<>> THEN db
    ELSE LET note == Head(affected)
             noteIndex == findIndexById(db, note.id)
             updatedLocation ==
                 createNotePath("note", movedPath(note.location.path, oldPath, newPath))
             updated == [note EXCEPT !.location = updatedLocation,
                                     !.folder = formatLocationString(updatedLocation),
                                     !.modified = t]
             db2 == IF noteIndex = 0 THEN db ELSE [db EXCEPT ![noteIndex] = updated]
         IN  relocateAll(db2, Tail(affected), oldPath, newPath, t)

FolderResult(n, newPath) == <<[affectedNotes |-> n, newPath |-> newPath]>>

renameFolder(S, t, oldFolderPath, newFolderName) ==
    LET oldLocation == parseLocationString(oldFolderPath)
        sanitizedNewName == Trim(newFolderName)
        newPath == renamedPath(oldLocation.path, sanitizedNewName)
        newLocation == createNotePath("note", newPath)
        oldFolderFsPath == getFileSystemPath(oldLocation)
        newFolderFsPath == getFileSystemPath(newLocation)
    IN  IF locationRejected(oldFolderPath) THEN {Fail(S, "InvalidLocation")}
        ELSE IF oldLocation.path = sSlash THEN {Fail(S, "Forbidden")}
        ELSE IF sanitizedNewName = sEmpty THEN {Fail(S, "InvalidName")}
        ELSE IF \E i \in 1..Len(sanitizedNewName) : sanitizedNewName[i] = "/"
        THEN {Fail(S, "InvalidName")}
        ELSE IF sanitizedNewName = sCalendar THEN {Fail(S, "InvalidName")}
        ELSE IF ~isNotePlanAvailable(S.fs)
        THEN LET affected == SelectSeq(S.notesDb, LAMBDA n : underFolder(n, oldLocation.path))
             IN  {Out(setDb(S, relocateAll(S.notesDb, affected, oldLocation.path, newPath, t)),
                      TRUE, "", FolderResult(Len(affected), newPath))}
        ELSE IF ~existsSync(S.fs, oldFolderFsPath) THEN {Fail(S, "NotFound")}
        ELSE IF ~isDirectory(S.fs, oldFolderFsPath) THEN {Fail(S, "NotADirectory")}
        ELSE IF existsSync(S.fs, newFolderFsPath) THEN {Fail(S, "AlreadyExists")}
        ELSE {LET affected == SelectSeq(g.notes, LAMBDA n : underFolder(n, oldLocation.path))
              IN  IF ~renameOk(g.S.fs, oldFolderFsPath, newFolderFsPath)
                  THEN Fail(g.S, "IOFailure")
                  ELSE Out(clearCache([g.S EXCEPT !.fs =
                               renameSync(g.S.fs, oldFolderFsPath, newFolderFsPath)]),
                           TRUE, "", FolderResult(Len(affected), newPath))
              : g \in getAllNotes(S, t)}

createFolder(S, t, folderPath) ==
    LET location == parseLocationString(folderPath)
        folderFsPath == getFileSystemPath(location)
    IN  IF locationRejected(folderPath) THEN {Fail(S, "InvalidLocation")}
        ELSE IF location.path = sSlash THEN {Fail(S, "Forbidden")}
        ELSE IF ~isNotePlanAvailable(S.fs) THEN {Out(S, TRUE, "", <<>>)}
        ELSE IF existsSync(S.fs, folderFsPath) THEN {Fail(S, "AlreadyExists")}
        ELSE IF ~mkdirOk(S.fs, folderFsPath) THEN {Fail(S, "IOFailure")}
        ELSE {Out([S EXCEPT !.fs = mkdirSync(S.fs, folderFsPath)], TRUE, "", <<>>)}

----------------------------------------------------------------------------
(* The state machine: one action per store operation, the clock, and an     *)
(* external writer (the NotePlan application) changing a file on the disk   *)

MaxCalls == 2        \* store calls in a run
MaxTicks == 1        \* clock advances of a millisecond in a run
MaxWaits == 2        \* clock advances of half the cache duration in a run
MaxExts == 1         \* external writes in a run
StartTime == 10000   \* the clock at process start

Cur == Store(fs, notesDb, notesCache, cacheIsDb, lastCacheUpdate, builtAt)

\* const notesDb: the three sample notes (their 2023 times are before the
\* clock's origin; the numbers keep their order)
mockNote(id, title, content, created, modified, path) ==
    [id |-> id, title |-> title, content |-> content, created |-> created,
     modified |-> modified, location |-> createNotePath("note", path),
     folder |-> path, filePath |-> NoPath, filename |-> sEmpty]
notesDbInit ==
    <<mockNote(<<"n", "o", "t", "e", "1">>, <<"S", "a", "m", "p", "l", "e", " ", "N", "o", "t", "e", " ", "1">>, <<"T", "h", "i", "s", " ", "i", "s", " ", "a", " ", "s", "a", "m", "p", "l", "e", " ", "n", "o", "t", "e">>, 0 - 60, 0 - 50, sSlash),
      mockNote(<<"n", "o", "t", "e", "2">>, <<"S", "a", "m", "p", "l", "e", " ", "N", "o", "t", "e", " ", "2">>, <<"T", "h", "i", "s", " ", "i", "s", " ", "a", "n", "o", "t", "h", "e", "r", " ", "s", "a", "m", "p", "l", "e", " ", "n", "o", "t", "e">>, 0 - 40, 0 - 30, sSlash),
      mockNote(<<"n", "o", "t", "e", "3">>, <<"P", "r", "o", "j", "e", "c", "t", " ", "I", "d", "e", "a", "s">>, <<"-", " ", "B", "u", "i", "l", "d", " ", "a", " ", "n", "o", "t", "e", "-", "t", "a", "k", "i", "n", "g", " ", "a", "p", "p", "\n", "-", " ", "L", "e", "a", "r", "n", " ", "a", " ", "n", "e", "w", " ", "l", "a", "n", "g", "u", "a", "g", "e", "\n", "-", " ", "W", "r", "i", "t", "e", " ", "a", " ", "b", "o", "o", "k">>, 0 - 20, 0 - 10, <<"P", "r", "o", "j", "e", "c", "t", "s">>)>>

\* names and texts of the initial trees and of the inputs
nA == <<"a", ".", "m", "d">>
nB == <<"b", ".", "m", "d">>
nC == <<"c", ".", "t", "x", "t">>
nT == <<"t", ".", "m", "d">>
nDay == <<"2", "0", "2", "5", "0", "9", "2", "8", ".", "m", "d">>
dF == <<"F">>
dG == <<"G">>
dT == <<"@", "T">>
txtA == <<"#", " ", "A", "\n", "x", " ", "x">>
txtB == <<"x">>
txtC == <<"-", "-", "-", "\n", "t", "i", "t", "l", "e", ":", " ", "C", "\n", "-", "-", "-", "\n", "x">>
\* a content with a title in its front matter and a heading below it
txtFront == <<"-", "-", "-", "\n", "t", "i", "t", "l", "e", ":", " ", "C", "\n", "-", "-", "-", "\n", "#", " ", "h">>
txtDay == <<"#", " ", "d", "\n", "x">>

fsMissing == [p \in {<<>>} |-> DirEntry]
fsEmpty ==
    [p \in {<<>>, NOTEPLAN_BASE_PATH, CALENDAR_PATH, NOTES_PATH} |-> DirEntry]
fsTreeDirs ==
    {<<>>, NOTEPLAN_BASE_PATH, CALENDAR_PATH, NOTES_PATH,
     Append(NOTES_PATH, dF), NOTES_PATH \o <<dF, dG>>, Append(NOTES_PATH, dT)}
fsTreeFiles ==
    {Append(CALENDAR_PATH, nDay), Append(NOTES_PATH, nA),
     NOTES_PATH \o <<dF, nB>>, NOTES_PATH \o <<dF, dG, nC>>, NOTES_PATH \o <<dT, nT>>}
\* the tree: a daily note, notes in the root and in F and F/G, a note in the
\* hidden @T; F/G is read-only
fsTree ==
    [p \in fsTreeDirs \cup fsTreeFiles |->
        IF p = NOTES_PATH \o <<dF, dG>> THEN ReadOnlyDirEntry
        ELSE IF p \in fsTreeDirs THEN DirEntry
        ELSE IF p = Append(CALENDAR_PATH, nDay) THEN FileEntry(txtDay, 100, 100)
        ELSE IF p = Append(NOTES_PATH, nA) THEN FileEntry(txtA, 200, 150)
        ELSE IF p = NOTES_PATH \o <<dF, nB>> THEN FileEntry(txtB, 300, 300)
        ELSE IF p = NOTES_PATH \o <<dF, dG, nC>> THEN FileEntry(txtC, 350, 350)
        ELSE FileEntry(txtB, 400, 400)]

\* a tree with a file and a directory that cannot be read, beside a note and
\* above a note that can
nU == <<"u", ".", "m", "d">>
dX == <<"X">>
fsLockedDirs ==
    {<<>>, NOTEPLAN_BASE_PATH, CALENDAR_PATH, NOTES_PATH, Append(NOTES_PATH, dX)}
fsLocked ==
    [p \in fsLockedDirs \cup {Append(NOTES_PATH, nA), Append(NOTES_PATH, nU),
                               NOTES_PATH \o <<dX, nB>>} |->
        IF p = Append(NOTES_PATH, dX) THEN UnreadableDirEntry
        ELSE IF p \in fsLockedDirs THEN DirEntry
        ELSE IF p = Append(NOTES_PATH, nU) THEN UnreadableFileEntry(txtB, 250, 250)
        ELSE IF p = Append(NOTES_PATH, nA) THEN FileEntry(txtA, 200, 150)
        ELSE FileEntry(txtB, 300, 300)]

\* a tree whose Calendar directory is missing
fsNoCalendar ==
    [p \in {<<>>, NOTEPLAN_BASE_PATH, NOTES_PATH, Append(NOTES_PATH, nA)} |->
        IF p = Append(NOTES_PATH, nA) THEN FileEntry(txtA, 200, 150) ELSE DirEntry]

InitialDisks == {fsTree, fsEmpty, fsMissing}

NoCall == [op |-> "none", args |-> <<>>, ok |-> TRUE, err |-> "", res |-> <<>>,
           at |-> 0, rescanned |-> FALSE]

\* no second store: the calls are made on one store only
NoTwin == [S |-> <<>>, ok |-> TRUE, err |-> "", res |-> <<>>]

\* no load under way: the calls are made in one step each
NoScan ==
    [phase |-> "idle", stack |-> <<>>, roots |-> <<>>, notes |-> <<>>,
     opened |-> <<>>, parsed |-> <<>>]

Init ==
    /\ fs \in InitialDisks
    /\ notesDb = notesDbInit
    /\ notesCache = <<>>
    /\ cacheIsDb = FALSE
    /\ lastCacheUpdate = 0
    /\ builtAt = 0
    /\ now = StartTime
    /\ last = NoCall
    /\ calls = 0
    /\ ticks = 0
    /\ exts = 0
    /\ twin = NoTwin
    /\ scan = NoScan

\* input values
TitleInputs == {<<"b">>, sEmpty}
NewTitleInputs == {<<"b">>, <<"c", " ", "!">>}
ContentInputs == {sEmpty, <<"x">>}
FolderInputs ==
    {sSlash, dF, dF \o sSlash \o dG, dT, sDotDot \o sSlash \o sCalendar, sCalendar,
     sDot \o sSlash \o sCalendar, sCalendarSlash \o dF, sDailyMarker}
\* folders that are only asked for: the empty string, and a string that is
\* a prefix of the folder name Calendar
QueryOnlyFolders == {sEmpty, <<"C">>}
\* a folder that is only created in: a subfolder reached through ..
CreateOnlyFolders == {sDotDot \o sSlash \o sCalendar \o sSlash \o dF}
NameInputs == {<<"H">>, <<"@", "H">>, <<" ">>, sCalendar, <<"a", "/", "b">>, dT}
DateInputs == {sEmpty, sToday, <<"2", "0", "2", "5", "-", "0", "9", "-", "2", "8">>}
idToday == sCalendarPrefix \o StripDashes(sToday)
FixedIds == {idToday, <<"2", "0", "2", "5", "0", "9", "2", "8">>, <<"2", "0", "2", "5", "-", "0", "9", "-", "2", "8">>,
             <<"n", "o", "t", "e", "-", "z">>}

SeqRange(q) == {q[i] : i \in 1..Len(q)}

\* the ids a caller passes: those of the notes the store shows, date forms
\* of a daily note, and ids that resolve to nothing
KnownIds(notes) == {n.id : n \in SeqRange(notes)}
IdInputs(notes) == KnownIds(notes) \cup FixedIds
NoteIdInputs(notes) == KnownIds(notes) \cup {<<"n", "o", "t", "e", "-", "z">>}

UpdateInputs ==
    {Updates(TRUE, <<"b">>, FALSE, sEmpty, FALSE, sEmpty),
     Updates(FALSE, sEmpty, TRUE, <<"x">>, FALSE, sEmpty),
     Updates(TRUE, <<"b">>, TRUE, <<"x">>, FALSE, sEmpty),
     Updates(FALSE, sEmpty, FALSE, sEmpty, TRUE, dF),
     Updates(FALSE, sEmpty, TRUE, txtFront, FALSE, sEmpty)}
\* renameFolder inputs: each folder with the well-formed names, one folder
\* with the malformed ones and with the name of a folder beside it, and the
\* path of a file
RenameFolderInputs ==
    {<<f, n>> : f \in FolderInputs, n \in {<<"H">>, <<"@", "H">>}}
        \cup {<<dF, n>> : n \in NameInputs}
        \cup {<<nA, <<"H">>>>}
OldTextInputs == {<<"x">>}
NewTextInputs == {<<"y">>, <<"$", "$">>}
ExternalPaths == {Append(NOTES_PATH, nA), Append(NOTES_PATH, nB)}
ExternalTexts == {<<"e">>}

\* a store call ran to its end: the state it left and what it returned
Returned(op, args, o, rescanned) ==
    /\ fs' = o.S.fs
    /\ notesDb' = o.S.notesDb
    /\ notesCache' = o.S.notesCache
    /\ cacheIsDb' = o.S.cacheIsDb
    /\ lastCacheUpdate' = o.S.lastCacheUpdate
    /\ builtAt' = o.S.builtAt
    /\ last' = [op |-> op, args |-> args, ok |-> o.ok, err |-> o.err,
                res |-> o.res, at |-> now, rescanned |-> rescanned]
    /\ calls' = calls + 1
    /\ UNCHANGED <<now, ticks, exts>>

Called(op, args, o, rescanned) ==
    Returned(op, args, o, rescanned) /\ UNCHANGED <<twin, scan>>

GetAllNotes ==
    /\ calls < MaxCalls
    /\ \E g \in getAllNotes(Cur, now) :
           Called("getAllNotes", <<>>, Out(g.S, TRUE, "", g.notes), g.rescanned)

GetNoteById ==
    /\ calls < MaxCalls
    /\ \E g \in getAllNotes(Cur, now) : \E id \in IdInputs(g.notes) :
           LET r == getNoteByIdWith(g, id)
           IN  Called("getNoteById", <<id>>, Out(r.S, TRUE, "", r.note), g.rescanned)

GetNotesByFolder ==
    /\ calls < MaxCalls
    /\ \E g \in getAllNotes(Cur, now) : \E folder \in FolderInputs \cup QueryOnlyFolders :
           Called("getNotesByFolder", <<folder>>, getNotesByFolderWith(g, folder), g.rescanned)

CreateDailyNote ==
    /\ calls < MaxCalls
    /\ \E g \in getAllNotes(Cur, now) : \E date \in DateInputs, content \in ContentInputs :
           Called("createDailyNote", <<date, content>>,
                  createDailyNoteWith(g, now, date, content), g.rescanned)

CreateNote ==
    /\ calls < MaxCalls
    /\ \E title \in TitleInputs, content \in ContentInputs,
          folder \in FolderInputs \cup CreateOnlyFolders :
           \E o \in createNote(Cur, now, title, content, folder) :
               Called("createNote", <<title, content, folder>>, o, FALSE)

UpdateNote ==
    /\ calls < MaxCalls
    /\ \E g \in getAllNotes(Cur, now) : \E id \in NoteIdInputs(g.notes), u \in UpdateInputs :
           Called("updateNote", <<id, u>>, updateNoteWith(g, now, id, u), g.rescanned)

EditNote ==
    /\ calls < MaxCalls
    /\ \E g \in getAllNotes(Cur, now) :
           \E id \in NoteIdInputs(g.notes), old \in OldTextInputs, new \in NewTextInputs,
              all \in BOOLEAN :
               \E o \in editNoteWith(g, now, id, old, new, all) :
                   Called("editNote", <<id, old, new, all>>, o, g.rescanned)

RenameNote ==
    /\ calls < MaxCalls
    /\ \E g \in getAllNotes(Cur, now) : \E id \in IdInputs(g.notes), newTitle \in NewTitleInputs :
           Called("renameNote", <<id, newTitle>>, renameNoteWith(g, now, id, newTitle), g.rescanned)

MoveNote ==
    /\ calls < MaxCalls
    /\ \E g \in getAllNotes(Cur, now) : \E id \in IdInputs(g.notes), folder \in FolderInputs :
           Called("moveNote", <<id, folder>>, moveNoteWith(g, now, id, folder), g.rescanned)

RenameFolder ==
    /\ calls < MaxCalls
    /\ \E in \in RenameFolderInputs :
           \E o \in renameFolder(Cur, now, in[1], in[2]) :
               Called("renameFolder", in, o, FALSE)

CreateFolder ==
    /\ calls < MaxCalls
    /\ \E folder \in FolderInputs :
           \E o \in createFolder(Cur, now, folder) :
               Called("createFolder", <<folder>>, o, FALSE)

\* the clock advances by a millisecond
Tick ==
    /\ ticks < MaxTicks
    /\ now' = now + 1
    /\ ticks' = ticks + 1
    /\ UNCHANGED <<fs, notesDb, notesCache, cacheIsDb, lastCacheUpdate, builtAt,
                   last, calls, exts, twin, scan>>

\* the clock advances by half the cache duration
Wait ==
    /\ ticks < MaxWaits
    /\ now' = now + (CACHE_DURATION \div 2)
    /\ ticks' = ticks + 1
    /\ UNCHANGED <<fs, notesDb, notesCache, cacheIsDb, lastCacheUpdate, builtAt,
                   last, calls, exts, twin, scan>>

\* the NotePlan application writes a note file; the service is not told
ExternalWrite ==
    /\ exts < MaxExts
    /\ isNotePlanAvailable(fs)
    /\ \E p \in ExternalPaths, text \in ExternalTexts :
          /\ writeOk(fs, p)
          /\ fs' = writeFileSync(fs, p, text, now)
    /\ exts' = exts + 1
    /\ UNCHANGED <<notesDb, notesCache, cacheIsDb, lastCacheUpdate, builtAt, now,
                   last, calls, ticks, twin, scan>>

\* every operation, on a clock that moves by milliseconds
Next ==
    \/ GetAllNotes
    \/ GetNoteById
    \/ GetNotesByFolder
    \/ CreateDailyNote
    \/ CreateNote
    \/ UpdateNote
    \/ EditNote
    \/ RenameNote
    \/ MoveNote
    \/ RenameFolder
    \/ CreateFolder
    \/ Tick

Spec == Init /\ [][Next]_vars

\* the cache scenario: reads and creations, an external writer, and a clock
\* that crosses the cache duration
CacheNext ==
    \/ GetAllNotes
    \/ CreateDailyNote
    \/ Wait
    \/ ExternalWrite

CacheSpec == Init /\ [][CacheNext]_vars

\* the operations that create, rename and move notes, on the same clock
IdNext ==
    \/ CreateNote
    \/ CreateDailyNote
    \/ RenameNote
    \/ MoveNote
    \/ RenameFolder
    \/ Tick

IdSpec == Init /\ [][IdNext]_vars

\* the scan scenario: the disk starts as any of the trees, among them the one
\* with entries that cannot be read and the one without the Calendar
\* directory, and the calls are those that read the
\* notes and those that put files and folders into the trees
ScanInit ==
    /\ fs \in InitialDisks \cup {fsLocked, fsNoCalendar}
    /\ notesDb = notesDbInit
    /\ notesCache = <<>>
    /\ cacheIsDb = FALSE
    /\ lastCacheUpdate = 0
    /\ builtAt = 0
    /\ now = StartTime
    /\ last = NoCall
    /\ calls = 0
    /\ ticks = 0
    /\ exts = 0
    /\ twin = NoTwin
    /\ scan = NoScan

ScanNext ==
    \/ GetAllNotes
    \/ GetNoteById
    \/ CreateNote
    \/ MoveNote
    \/ RenameFolder
    \/ CreateFolder
    \/ Tick

ScanSpec == ScanInit /\ [][ScanNext]_vars

----------------------------------------------------------------------------
(* Properties *)

\* a step that is a store call of one of the operations ops
CallOf(ops) == calls' = calls + 1 /\ last'.op \in ops

\* C1: after a createNote call that returned a note, getNoteById with the
\* returned note's id, made at once, returns a note with the returned note's
\* title and content
C1_CreatedNoteIsReadBack ==
    (last.op = "createNote" /\ last.ok /\ now = last.at) =>
        \A r \in getNoteById(Cur, now, last.res[1].id) :
            /\ r.note # <<>>
            /\ r.note[1].title = last.res[1].title
            /\ r.note[1].content = last.res[1].content

idsDistinct(notes) ==
    \A i, j \in 1..Len(notes) : notes[i].id = notes[j].id => i = j

\* C2: the ids of the notes getAllNotes returns are pairwise distinct in
\* every state with the note directories on the disk that is reached from a
\* tree with distinct ids by createNote, createDailyNote, renameNote,
\* moveNote and renameFolder calls
C2_IdsStayDistinct ==
    isNotePlanAvailable(fs) =>
        \A g \in getAllNotes(Cur, now) : idsDistinct(g.notes)

DiskChangingOps ==
    {"createNote", "createDailyNote", "updateNote", "editNote", "renameNote",
     "moveNote", "renameFolder"}

\* C3: when a call of a mutating operation has changed the disk, the next
\* getAllNotes returns the notes of a fresh scan of the two roots, whatever
\* the age of the cache
C3_ReadAfterMutationIsFreshScan ==
    [][(CallOf(DiskChangingOps) /\ fs' # fs) =>
           \A g \in getAllNotes(Cur', now') : g.notes \in scanBothRoots(fs')]_vars

\* C4: of two getAllNotes calls in a row made less than CACHE_DURATION apart,
\* the second returns the sequence the first returned and does not scan the
\* disk
C4_ReadsWithinTtlShareSnapshot ==
    [][(CallOf({"getAllNotes"}) /\ last.op = "getAllNotes"
            /\ now - last.at < CACHE_DURATION) =>
           (~last'.rescanned /\ last'.res = last.res)]_vars

\* what loadNotesFromFileSystem can return in a store state
freshLoads(S) == {l.notes : l \in loadNotesFromFileSystem(S)}

\* C5: every getAllNotes call returns a sequence built less than
\* CACHE_DURATION before the call, and a call made CACHE_DURATION or more
\* after the last build returns a fresh load of the disk as it is then, with
\* what an external writer has written
C5_NeverStaleBeyondTtl ==
    [][CallOf({"getAllNotes"}) =>
           /\ now - builtAt' < CACHE_DURATION
           /\ last'.res = notesCache'
           /\ (now - builtAt >= CACHE_DURATION => last'.res \in freshLoads(Cur))]_vars

\* a read made after the cache duration shows the text an external writer
\* wrote after the previous read
C5_Witness ==
    /\ last.op = "getAllNotes" /\ calls = 2 /\ exts = 1
    /\ last.rescanned /\ last.at - StartTime >= CACHE_DURATION
    /\ \E i \in 1..Len(last.res) : last.res[i].content \in ExternalTexts

\* the YYYYMMDD day a createDailyNote date argument stands for
dayOf(date) == StripDashes(IF date # <<>> THEN date ELSE sToday)

\* C6: a createDailyNote call that follows a successful createDailyNote call
\* for the same day (the date given or defaulted, any content) fails with
\* AlreadyExists and changes neither the disk nor the fallback list, so the
\* first call's note keeps its content
C6_SecondDailyNoteRejected ==
    [][(CallOf({"createDailyNote"}) /\ last.op = "createDailyNote" /\ last.ok
            /\ dayOf(last'.args[1]) = dayOf(last.args[1])) =>
           /\ ~last'.ok /\ last'.err = "AlreadyExists"
           /\ fs' = fs /\ notesDb' = notesDb
           /\ last.res[1].filePath # NoPath =>
                  fs'[last.res[1].filePath].content = last.res[1].content]_vars

\* the second of two createDailyNote calls for today was rejected, the first
\* one's file is on the disk
C6_Witness ==
    /\ last.op = "createDailyNote" /\ calls = 2
    /\ ~last.ok /\ last.err = "AlreadyExists"
    /\ last.args[1] = sEmpty /\ last.args[2] # sEmpty
    /\ isFile(fs, Append(CALENDAR_PATH, StripDashes(sToday) \o sTxt))

\* what lies at or under the calendar root
calendarTree(f) ==
    {<<p, f[p]>> : p \in {q \in DOMAIN f : IsPrefix(CALENDAR_PATH, q)}}

\* C7: a createNote, moveNote, renameFolder or createFolder call leaves the
\* calendar root and everything under it as it was
C7_FolderCallsLeaveCalendarTree ==
    [][CallOf({"createNote", "moveNote", "renameFolder", "createFolder"}) =>
           calendarTree(fs') = calendarTree(fs)]_vars

\* the id resolves, in the snapshot a call made now reads, to a calendar note
resolvesToCalendar(S, t, id) ==
    \E r \in getNoteById(S, t, id) :
        r.note # <<>> /\ r.note[1].location.type = "calendar"

\* C8 as stated: renameNote and moveNote on a calendar note fail with
\* Forbidden and leave the disk and the cache as they were
C8_DailyNoteCallLeavesCache ==
    [][(CallOf({"renameNote", "moveNote"})
            /\ resolvesToCalendar(Cur, now, last'.args[1])) =>
           /\ ~last'.ok /\ last'.err = "Forbidden"
           /\ fs' = fs
           /\ UNCHANGED <<notesCache, lastCacheUpdate>>]_vars

\* C8 amended: renameNote and moveNote on a calendar note fail with Forbidden
\* and leave the disk and the fallback list as they were; the cache is not
\* dropped: a valid cache stays, and an empty or expired one is rebuilt by
\* the lookup from the disk as it is
C8_DailyNoteIsImmutable ==
    [][(CallOf({"renameNote", "moveNote"})
            /\ resolvesToCalendar(Cur, now, last'.args[1])) =>
           /\ ~last'.ok /\ last'.err = "Forbidden"
           /\ fs' = fs /\ notesDb' = notesDb
           /\ IF cacheValid(Cur, now)
              THEN UNCHANGED <<notesCache, lastCacheUpdate>>
              ELSE notesCache' \in freshLoads(Cur) /\ lastCacheUpdate' = now]_vars

\* a daily note addressed by its YYYYMMDD date was refused, and the lookup
\* rebuilt the cache
C8_Witness ==
    /\ last.op \in {"renameNote", "moveNote"}
    /\ isDate8(last.args[1])
    /\ ~last.ok /\ last.err = "Forbidden"
    /\ last.rescanned /\ lastCacheUpdate = last.at /\ notesCache # <<>>

\* C9 as stated: renameNote with an id that begins with calendar- fails with
\* Forbidden
C9_CalendarIdAlwaysForbidden ==
    [][(CallOf({"renameNote"}) /\ StartsWith(last'.args[1], sCalendarPrefix)) =>
           (~last'.ok /\ last'.err = "Forbidden")]_vars

\* C9 amended: renameNote with an id that begins with calendar- fails, with
\* Forbidden when the id resolves to a note and with NotFound when it
\* resolves to none, and renames nothing
C9_CalendarIdNeverRenamed ==
    [][(CallOf({"renameNote"}) /\ StartsWith(last'.args[1], sCalendarPrefix)) =>
           /\ ~last'.ok
           /\ \A r \in getNoteById(Cur, now, last'.args[1]) :
                  last'.err = IF r.note # <<>> THEN "Forbidden" ELSE "NotFound"
           /\ fs' = fs /\ notesDb' = notesDb]_vars

\* a renameNote of an existing daily note by its calendar- id was refused
C9_Witness ==
    /\ last.op = "renameNote"
    /\ StartsWith(last.args[1], sCalendarPrefix)
    /\ lookupById(notesCache, last.args[1]) # <<>>
    /\ ~last.ok /\ last.err = "Forbidden"

\* the notes the store shows at or under a folder path
notesUnder(S, t, path) ==
    UNION {{n \in SeqRange(g.notes) : underFolder(n, path)} : g \in getAllNotes(S, t)}

\* C10: after a successful renameFolder(old, newName) with new path P, every
\* note the store showed at or under old is returned by getNotesByFolder(P)
\* at the same sub-path, getNotesByFolder(old) returns no note, and the
\* count reported is the number of those notes
C10_RenamedFolderKeepsNotes ==
    [][(CallOf({"renameFolder"}) /\ last'.ok) =>
           LET old == parseLocationString(last'.args[1]).path
               P == last'.res[1].newPath
               before == notesUnder(Cur, now, old)
           IN  /\ \A o \in getNotesByFolder(Cur', now', P) :
                      /\ o.ok
                      /\ \A n \in before : \E m \in SeqRange(o.res) :
                             /\ m.title = n.title /\ m.content = n.content
                             /\ m.location.path = movedPath(n.location.path, old, P)
               /\ \A o \in getNotesByFolder(Cur', now', last'.args[1]) :
                      o.ok /\ o.res = <<>>
               /\ last'.res[1].affectedNotes = Cardinality(before)]_vars

\* C11: a successful createNote call writes a file at a path where no file
\* was, and the note of a successful createNote call that follows a
\* successful createNote call has another id and another file than the
\* first one's
C11_CreateNoteNeverCollides ==
    [][(CallOf({"createNote"}) /\ last'.ok) =>
           /\ last'.res[1].filePath # NoPath =>
                  ~existsSync(fs, last'.res[1].filePath)
           /\ (last.op = "createNote" /\ last.ok) =>
                  /\ last'.res[1].id # last.res[1].id
                  /\ last'.res[1].filePath # NoPath =>
                         last'.res[1].filePath # last.res[1].filePath]_vars

\* the path renameNote computes for a note and a new title
renamedFilePath(note, newTitle) ==
    pathJoin(dirname(note.filePath),
             sanitizedTitle(newTitle) \o extname(note.filePath))

\* the call renames a regular note that has a file, on a store with its
\* directories, to a path that something else occupies
renameCollision(S, t, id, newTitle) ==
    /\ isNotePlanAvailable(S.fs)
    /\ \E r \in getNoteById(S, t, id) :
           /\ r.note # <<>>
           /\ ~isCalendarTarget(r.note[1], id)
           /\ r.note[1].filePath # NoPath
           /\ existsSync(S.fs, renamedFilePath(r.note[1], newTitle))
           /\ renamedFilePath(r.note[1], newTitle) # r.note[1].filePath

\* C12 as stated: a renameNote call to an occupied path fails with
\* AlreadyExists, and a renameNote call that fails with AlreadyExists leaves
\* the disk and the cache as they were
C12_CollisionLeavesCache ==
    [][CallOf({"renameNote"}) =>
           /\ renameCollision(Cur, now, last'.args[1], last'.args[2]) =>
                  (~last'.ok /\ last'.err = "AlreadyExists")
           /\ last'.err = "AlreadyExists" =>
                  (fs' = fs /\ UNCHANGED <<notesCache, lastCacheUpdate>>)]_vars

\* C12 amended: a renameNote call to an occupied path fails with
\* AlreadyExists, and a renameNote call that fails with AlreadyExists leaves
\* the disk as it was and does not drop the cache: a valid cache stays, an
\* empty or expired one is rebuilt by the lookup from the unchanged disk
C12_CollisionLeavesDisk ==
    [][CallOf({"renameNote"}) =>
           /\ renameCollision(Cur, now, last'.args[1], last'.args[2]) =>
                  (~last'.ok /\ last'.err = "AlreadyExists")
           /\ last'.err = "AlreadyExists" =>
                  /\ fs' = fs /\ notesDb' = notesDb
                  /\ IF cacheValid(Cur, now)
                     THEN UNCHANGED <<notesCache, lastCacheUpdate>>
                     ELSE notesCache' \in freshLoads(Cur)
                              /\ lastCacheUpdate' = now]_vars

\* a renameNote call was refused because the new path is occupied
C12_Witness ==
    /\ last.op = "renameNote" /\ ~last.ok /\ last.err = "AlreadyExists"
    /\ \E n \in SeqRange(notesCache) :
           /\ n.id = last.args[1]
           /\ isFile(fs, n.filePath)
           /\ isFile(fs, renamedFilePath(n, last.args[2]))

\* C13: after a renameNote call, successful or failed, the file of the note
\* it addressed either is gone from its old path or has its old content
\* there, unless the call succeeded with a title that keeps the file name
C13_RenameLooksAtomic ==
    [][CallOf({"renameNote"}) =>
           \A r \in getNoteById(Cur, now, last'.args[1]) :
               (r.note # <<>> /\ isFile(fs, r.note[1].filePath)) =>
                   LET p == r.note[1].filePath
                   IN  (isFile(fs', p) /\ fs'[p].content # fs[p].content) =>
                           (last'.ok /\ renamedFilePath(r.note[1], last'.args[2]) = p)]_vars

\* parseLocationString(formatLocationString(loc)) returns loc
roundTrips(loc) ==
    /\ ~locationRejected(formatLocationString(loc))
    /\ parseLocationString(formatLocationString(loc)) = loc

\* C14: every location of category note that parseLocationString returns for
\* a folder string it accepts, and every location of category note of a note
\* the store returns, is parsed back from its display string
C14_LocationRoundTrip ==
    /\ \A str \in FolderInputs :
           ~locationRejected(str) => roundTrips(parseLocationString(str))
    /\ \A g \in getAllNotes(Cur, now) : \A n \in SeqRange(g.notes) :
           n.location.type = "note" => roundTrips(n.location)

\* the folder strings of the claim: 'Calendar', below 'Calendar/', '[daily-note]'
namesCalendar(str) ==
    \/ str = <<"C", "a", "l", "e", "n", "d", "a", "r">>
    \/ StartsWith(str, <<"C", "a", "l", "e", "n", "d", "a", "r", "/">>)
    \/ str = <<"[", "d", "a", "i", "l", "y", "-", "n", "o", "t", "e", "]">>

\* the operations that take a folder string, and the folder string of a call
FolderOps == {"getNotesByFolder", "createNote", "moveNote", "renameFolder", "createFolder"}
folderArg(call) ==
    IF call.op = "createNote" THEN call.args[3]
    ELSE IF call.op = "moveNote" THEN call.args[2]
    ELSE call.args[1]
\* the operations that look at the notes before they parse the folder string
ReadsBeforeParse == {"getNotesByFolder", "moveNote"}
\* the checks an operation makes before it parses the folder string pass
reachesParse(S, t, call) ==
    CASE call.op = "createNote" -> call.args[1] # sEmpty
      [] call.op = "moveNote" ->
             \E r \in getNoteById(S, t, call.args[1]) :
                 /\ r.note # <<>>
                 /\ ~isCalendarTarget(r.note[1], call.args[1])
                 /\ r.note[1].filePath # NoPath
      [] OTHER -> TRUE

\* C15 as stated: a call of getNotesByFolder, createNote, moveNote,
\* renameFolder or createFolder with a folder string that is 'Calendar',
\* starts with 'Calendar/' or is '[daily-note]' fails with InvalidLocation
\* and leaves the filesystem and the cache as they were
C15_CalendarFolderRejected ==
    [][(CallOf(FolderOps) /\ namesCalendar(folderArg(last'))) =>
           /\ ~last'.ok /\ last'.err = "InvalidLocation"
           /\ fs' = fs
           /\ UNCHANGED <<notesCache, lastCacheUpdate>>]_vars

\* C15 amended: such a call always fails and leaves the filesystem as it
\* was; the error is InvalidLocation when the checks the operation makes
\* before parsing the folder pass (createNote: a title is given; moveNote:
\* the id resolves to a regular note with a file); the cache is as it was,
\* except that getNotesByFolder and moveNote, which read the notes first,
\* rebuild a cache that is not valid
C15_CalendarFolderNeverUsed ==
    [][(CallOf(FolderOps) /\ namesCalendar(folderArg(last'))) =>
           /\ ~last'.ok
           /\ reachesParse(Cur, now, last') => last'.err = "InvalidLocation"
           /\ fs' = fs /\ notesDb' = notesDb
           /\ IF last'.op \in ReadsBeforeParse /\ ~cacheValid(Cur, now)
              THEN notesCache' \in freshLoads(Cur) /\ lastCacheUpdate' = now
              ELSE UNCHANGED <<notesCache, lastCacheUpdate>>]_vars

\* a call with a folder below 'Calendar/' was rejected with InvalidLocation
C15_Witness ==
    /\ last.op \in FolderOps /\ StartsWith(folderArg(last), sCalendarSlash)
    /\ ~last.ok /\ last.err = "InvalidLocation"

\* the notes getByFolder(F) is to return: category note, and for F other than
\* '/' and the empty string, path F or below F
belongsTo(n, F) ==
    /\ n.location.type = "note"
    /\ \/ F \in {sEmpty, sSlash}
       \/ n.location.path = F
       \/ StartsWith(n.location.path, F \o sSlash)

\* C16: getNotesByFolder(F), for a folder string that does not name the
\* calendar, returns, in the order of the notes it read, exactly the notes of
\* category note whose path is F or starts with F + '/', all notes of
\* category note for '/' and the empty string; no calendar note and no note
\* of a folder whose name only has F as a string prefix is among them
C16_FolderListingIsExact ==
    [][(CallOf({"getNotesByFolder"}) /\ ~namesCalendar(last'.args[1])) =>
           /\ last'.ok
           /\ \E g \in getAllNotes(Cur, now) :
                  last'.res = SelectSeq(g.notes, LAMBDA n : belongsTo(n, last'.args[1]))
           /\ \A n \in SeqRange(last'.res) :
                  /\ n.location.type = "note"
                  /\ last'.args[1] \notin {sEmpty, sSlash} =>
                         \/ n.location.path = last'.args[1]
                         \/ StartsWith(n.location.path, last'.args[1] \o sSlash)]_vars

\* the folder C was asked for while a note of folder Calendar was on disk,
\* and the note was not returned
C16_Witness ==
    /\ last.op = "getNotesByFolder" /\ last.ok /\ last.args[1] = <<"C">>
    /\ last.res = <<>>
    /\ \E n \in SeqRange(notesCache) : n.location = createNotePath("note", sCalendar)

\* the folder F was asked for and the notes of F and of F/G were returned
C16_WitnessNested ==
    /\ last.op = "getNotesByFolder" /\ last.ok /\ last.args[1] = dF
    /\ {n.location.path : n \in SeqRange(last.res)} = {dF, dF \o sSlash \o dG}

\* YYYY-MM-DD for YYYYMMDD
withDashes(d) == SubSeq(d, 1, 4) \o <<"-">> \o SubSeq(d, 5, 6) \o <<"-">> \o SubSeq(d, 7, 8)
\* the first note of a snapshot with the id, <<>> when there is none
firstWithId(notes, id) ==
    IF \E i \in 1..Len(notes) : notes[i].id = id
    THEN <<notes[CHOOSE i \in 1..Len(notes) :
                    notes[i].id = id /\ \A j \in 1..(i - 1) : notes[j].id # id]>>
    ELSE <<>>
\* the id, and the calendar id it is a date form of
aliasesOf(id) ==
    {id} \cup (IF isDate8(id) THEN {sCalendarPrefix \o id} ELSE {})
         \cup (IF isDateDashed(id) THEN {sCalendarPrefix \o StripDashes(id)} ELSE {})
\* snapshots of up to two notes, of which only the id matters
AliasDay == <<"2", "0", "2", "5", "0", "9", "2", "8">>
AliasIds == {AliasDay, withDashes(AliasDay), sCalendarPrefix \o AliasDay}
AliasSnapshots ==
    {<<>>} \cup {<<[id |-> a]>> : a \in AliasIds}
           \cup {<<[id |-> a], [id |-> b]>> : a \in AliasIds, b \in AliasIds}
\* what getById is to return from a snapshot
lookupAsSpecified(notes, id, found) ==
    /\ firstWithId(notes, id) # <<>> => found = firstWithId(notes, id)
    /\ \A d \in {AliasDay} :
           firstWithId(notes, sCalendarPrefix \o d) # <<>> =>
               /\ id = sCalendarPrefix \o d => found = firstWithId(notes, sCalendarPrefix \o d)
               /\ (id \in {d, withDashes(d)} /\ firstWithId(notes, id) = <<>>) =>
                      found = firstWithId(notes, sCalendarPrefix \o d)
    /\ (\A a \in aliasesOf(id) : firstWithId(notes, a) = <<>>) => found = <<>>

\* C17: getNoteById called with YYYYMMDD, YYYY-MM-DD or calendar-YYYYMMDD
\* returns the note with id calendar-YYYYMMDD of the notes it read; a note
\* whose id is the id asked for is returned before a date form is tried; the
\* result is null when no note has the id or the calendar id it is a date
\* form of
C17_DateFormsFindTheDailyNote ==
    [][CallOf({"getNoteById"}) =>
           /\ \E g \in getAllNotes(Cur, now) :
                  lookupAsSpecified(g.notes, last'.args[1], last'.res)
           /\ \A notes \in AliasSnapshots : \A id \in AliasIds :
                  lookupAsSpecified(notes, id, lookupById(notes, id))]_vars

\* the daily note of 2025-09-28 was asked for by its dashed date and returned
C17_Witness ==
    /\ last.op = "getNoteById" /\ last.args[1] = withDashes(AliasDay)
    /\ last.res # <<>> /\ last.res[1].id = sCalendarPrefix \o AliasDay

\* the content of the note as the store returns it, and as it is on disk
editTargets(S, t, id) == {r.note[1] : r \in {q \in getNoteById(S, t, id) : q.note # <<>>}}
diskContent(f, note) ==
    IF note.filePath # NoPath /\ isFile(f, note.filePath) THEN f[note.filePath].content
    ELSE note.content
\* the occurrences of a text in a content, counted from the left, none
\* overlapping another
occurrenceCount(content, text) ==
    LET f[i \in 1..(Len(content) + 1)] ==
            IF i + Len(text) - 1 > Len(content) THEN 0
            ELSE IF matchAt(content, text, i) THEN 1 + f[i + Len(text)]
            ELSE f[i + 1]
    IN  IF text = <<>> THEN Len(content) + 1 ELSE f[1]
\* the failure editNote is to end with, "" when it is to replace
editFailure(content, old_text, replace_all) ==
    IF occurrenceCount(content, old_text) = 0 THEN "TextNotFound"
    ELSE IF occurrenceCount(content, old_text) > 1 /\ ~replace_all THEN "AmbiguousMatch"
    ELSE ""

\* the failures the two text checks of editNote end with
TextFailures == {"TextNotFound", "AmbiguousMatch"}
\* the failure every note the id may resolve to calls for, "" when they differ
\* or the id resolves to nothing
editFailureOf(S, t, call) ==
    LET es == {editFailure(diskContent(S.fs, n), call.args[2], call.args[4]) :
                   n \in editTargets(S, t, call.args[1])}
    IN  IF Cardinality(es) = 1 THEN CHOOSE e \in es : TRUE ELSE ""

\* C18 as stated: editNote on a note whose content has no occurrence of
\* old_text fails with TextNotFound, on one with more than one occurrence
\* and replace_all not true with AmbiguousMatch, and on both failures the
\* disk and the cache are as they were
C18_EditFailureLeavesCache ==
    [][CallOf({"editNote"}) =>
           /\ editFailureOf(Cur, now, last') # "" =>
                  (~last'.ok /\ last'.err = editFailureOf(Cur, now, last'))
           /\ (~last'.ok /\ last'.err \in TextFailures) =>
                  /\ fs' = fs
                  /\ UNCHANGED <<notesCache, lastCacheUpdate>>]_vars

\* C18 amended: the two failures are as stated (each is raised only for a
\* note whose content calls for it) and leave the disk and the mock notes as
\* they were; the lookup editNote starts with rebuilds a cache that is not
\* valid, and a valid cache is as it was
C18_EditFailureLeavesDisk ==
    [][CallOf({"editNote"}) =>
           /\ editFailureOf(Cur, now, last') # "" =>
                  (~last'.ok /\ last'.err = editFailureOf(Cur, now, last'))
           /\ (~last'.ok /\ last'.err \in TextFailures) =>
                  /\ \E n \in editTargets(Cur, now, last'.args[1]) :
                         editFailure(diskContent(fs, n), last'.args[2], last'.args[4])
                             = last'.err
                  /\ fs' = fs /\ notesDb' = notesDb
                  /\ IF cacheValid(Cur, now)
                     THEN UNCHANGED <<notesCache, lastCacheUpdate>>
                     ELSE /\ notesCache' \in freshLoads(Cur)
                          /\ lastCacheUpdate' = now]_vars

\* editNote without replace_all met two occurrences in a file and failed
C18_Witness ==
    /\ last.op = "editNote" /\ ~last.ok /\ last.err = "AmbiguousMatch"
    /\ ~last.args[4]
    /\ \E p \in DOMAIN fs :
           isFile(fs, p) /\ occurrenceCount(fs[p].content, last.args[2]) > 1

\* editNote met no occurrence in a file written by createNote and failed
C18_WitnessTextNotFound ==
    /\ last.op = "editNote" /\ ~last.ok /\ last.err = "TextNotFound"
    /\ \E p \in DOMAIN fs :
           isFile(fs, p) /\ occurrenceCount(fs[p].content, last.args[2]) = 0

\* the content with the occurrences of a text (the first one, or all of
\* them from the left) replaced by the new text as it is written
literalReplace(content, text, new, all) ==
    LET f[i \in 1..(Len(content) + 1)] ==
            IF i + Len(text) - 1 > Len(content) THEN SubSeq(content, i, Len(content))
            ELSE IF matchAt(content, text, i)
                 THEN new \o (IF all THEN f[i + Len(text)]
                              ELSE SubSeq(content, i + Len(text), Len(content)))
            ELSE <<content[i]>> \o f[i + 1]
    IN  f[1]

\* C19: a successful editNote leaves, as the content of the note it returns
\* and of the note's file, the content it read with every occurrence of
\* old_text (replace_all) or the only occurrence of old_text replaced by
\* new_text literally, the rest unchanged
C19_EditReplacesLiterally ==
    [][(CallOf({"editNote"}) /\ last'.ok) =>
           \E n \in editTargets(Cur, now, last'.args[1]) :
               LET expected == literalReplace(n.content, last'.args[2], last'.args[3],
                                              last'.args[4])
               IN  /\ last'.args[4] \/ occurrenceCount(n.content, last'.args[2]) = 1
                   /\ last'.res[1].content = expected
                   /\ (n.filePath # NoPath /\ isFile(fs', n.filePath)) =>
                          fs'[n.filePath].content = expected]_vars

\* the operations that return notes
NoteOps ==
    {"getAllNotes", "getNoteById", "getNotesByFolder", "createDailyNote", "createNote",
     "updateNote", "editNote", "renameNote", "moveNote"}

\* C20: every note of category calendar that the last call returned, and
\* that a read of the notes returns now, has the location path '/'
C20_CalendarNotesAtRoot ==
    /\ (last.op \in NoteOps /\ last.ok) =>
           \A n \in SeqRange(last.res) :
               n.location.type = "calendar" => n.location.path = sSlash
    /\ \A g \in getAllNotes(Cur, now) : \A n \in SeqRange(g.notes) :
           n.location.type = "calendar" => n.location.path = sSlash

\* the notes of a snapshot are in the order of their modified times, newest first
modifiedDescending(notes) ==
    \A i \in 1..Len(notes) : \A j \in i..Len(notes) : notes[i].modified >= notes[j].modified

\* C21: the snapshot a getAllNotes call returns is ordered by modified time
\* descending, with the directories present and with the in-memory notes
C21_SnapshotNewestFirst ==
    [][CallOf({"getAllNotes"}) => modifiedDescending(last'.res)]_vars

\* the folder field a note of a location is to carry
displayFolder(location) ==
    IF location.type = "calendar"
    THEN <<"[", "d", "a", "i", "l", "y", "-", "n", "o", "t", "e", "]">>
    ELSE location.path

\* C22: every note the last call returned, and every note a read of the
\* notes returns now, has the folder field '[daily-note]' when it is a
\* calendar note and its location path otherwise
C22_FolderFieldFollowsLocation ==
    /\ (last.op \in NoteOps /\ last.ok) =>
           \A n \in SeqRange(last.res) : n.folder = displayFolder(n.location)
    /\ \A g \in getAllNotes(Cur, now) : \A n \in SeqRange(g.notes) :
           n.folder = displayFolder(n.location)

\* the call is one the fallback mode is to carry out: a createNote with a
\* title and a folder that is accepted, a renameNote or a moveNote (to a
\* folder that is accepted) of a regular note of the in-memory list
fallbackCallIsValid(db, call) ==
    CASE call.op = "createNote" ->
             call.args[1] # sEmpty /\ ~namesCalendar(call.args[3])
      [] call.op = "renameNote" ->
             \E i \in 1..Len(db) : db[i].id = call.args[1] /\ db[i].location.type = "note"
      [] call.op = "moveNote" ->
             /\ \E i \in 1..Len(db) : db[i].id = call.args[1] /\ db[i].location.type = "note"
             /\ ~namesCalendar(call.args[2])
      [] OTHER -> FALSE

\* C23: with the directories absent, a createNote, renameNote or moveNote on
\* the in-memory notes succeeds and changes the in-memory list, and the note
\* it returns is among the notes the next getAllNotes returns
C23_FallbackMutatesList ==
    [][(CallOf({"createNote", "renameNote", "moveNote"})
          /\ ~isNotePlanAvailable(fs) /\ fallbackCallIsValid(notesDb, last')) =>
           /\ last'.ok
           /\ notesDb' # notesDb
           /\ \A g \in getAllNotes(Cur', now') :
                  \E n \in SeqRange(g.notes) : n = last'.res[1]]_vars

\* the path moveNote gives the file of a note in a folder
movedFilePath(note, folder) ==
    pathJoin(getFileSystemPath(parseLocationString(folder)), basenameOf(note.filePath))
\* moveNote reaches its collision check and finds a different file at the
\* destination
moveCollision(S, t, id, folder) ==
    /\ isNotePlanAvailable(S.fs) /\ ~namesCalendar(folder)
    /\ \A r \in getNoteById(S, t, id) :
           /\ r.note # <<>>
           /\ ~isCalendarTarget(r.note[1], id)
           /\ r.note[1].filePath # NoPath
           /\ existsSync(S.fs, movedFilePath(r.note[1], folder))
           /\ movedFilePath(r.note[1], folder) # r.note[1].filePath

\* C24: after a successful moveNote(id, F) the id resolves to a note with the
\* content and the file name the note had and with location path F; a
\* moveNote that finds a different file of the same name in F fails with
\* AlreadyExists and leaves the disk as it was
C24_MoveKeepsNote ==
    [][CallOf({"moveNote"}) =>
           /\ last'.ok =>
                  \E r \in getNoteById(Cur, now, last'.args[1]) :
                      /\ r.note # <<>>
                      /\ \A q \in getNoteById(Cur', now', last'.args[1]) :
                             /\ q.note # <<>>
                             /\ q.note[1].id = r.note[1].id
                             /\ q.note[1].content = r.note[1].content
                             /\ q.note[1].filename = r.note[1].filename
                             /\ q.note[1].location = parseLocationString(last'.args[2])
           /\ moveCollision(Cur, now, last'.args[1], last'.args[2]) =>
                  (~last'.ok /\ last'.err = "AlreadyExists" /\ fs' = fs)]_vars

\* the note has the id, the file path and the location of another
samePlace(n, m) == n.id = m.id /\ n.filePath = m.filePath /\ n.location = m.location

\* C25: an updateNote call, whatever the updates, leaves every file and
\* directory where it was; when it succeeds, the note it returns has the id,
\* the file path and the location of the note the id resolved to, and a note
\* with that id, file path and location is among the notes read afterwards
C25_UpdateNeverRelocates ==
    [][CallOf({"updateNote"}) =>
           /\ DOMAIN fs' = DOMAIN fs
           /\ last'.ok =>
                  \E r \in getNoteById(Cur, now, last'.args[1]) :
                      /\ r.note # <<>>
                      /\ samePlace(last'.res[1], r.note[1])
                      /\ \A g \in getAllNotes(Cur', now') :
                             \E n \in SeqRange(g.notes) : samePlace(n, r.note[1])]_vars

\* an updateNote with a folder field succeeded on a note with a file
C25_Witness ==
    /\ last.op = "updateNote" /\ last.ok /\ last.args[2].hasFolder
    /\ last.res[1].filePath # NoPath

\* an updateNote with a folder field succeeded on an in-memory note
C25_WitnessFallback ==
    /\ last.op = "updateNote" /\ last.ok /\ last.args[2].hasFolder
    /\ last.res[1].filePath = NoPath

\* the heading rule: the first line starting with '# ' becomes '# ' + title;
\* when there is none, that line and a blank line are put first
withHeading(content, title) ==
    LET lines == Split(content, "\n")
        isHeading(i) == Len(lines[i]) >= 2 /\ lines[i][1] = "#" /\ lines[i][2] = " "
        heading == <<"#", " ">> \o title
    IN  IF \E i \in 1..Len(lines) : isHeading(i)
        THEN LET h == CHOOSE i \in 1..Len(lines) :
                          isHeading(i) /\ \A j \in 1..(i - 1) : ~isHeading(j)
             IN  Join([i \in 1..Len(lines) |-> IF i = h THEN heading ELSE lines[i]], sNL)
        ELSE Join(<<heading, <<>>>> \o lines, sNL)

\* C26: after a successful renameNote(id, newTitle) to a stem other than the
\* old one, the old id resolves to nothing, the id 'note-' + stem resolves to
\* a note of the same location whose content is the old content with the
\* heading rule applied, and getAllNotes returns as many notes as before
C26_RenameReplacesId ==
    [][(CallOf({"renameNote"}) /\ last'.ok) =>
           \E r \in getNoteById(Cur, now, last'.args[1]) :
               /\ r.note # <<>>
               /\ LET old == r.note[1]
                      stem == sanitizedTitle(last'.args[2])
                  IN  stem # old.filename =>
                          \A h \in getAllNotes(Cur', now') :
                              /\ lookupById(h.notes, last'.args[1]) = <<>>
                              /\ lookupById(h.notes, sNotePrefix \o stem) # <<>>
                              /\ lookupById(h.notes, sNotePrefix \o stem)[1].location
                                     = old.location
                              /\ lookupById(h.notes, sNotePrefix \o stem)[1].content
                                     = withHeading(old.content, last'.args[2])
                              /\ \A g \in getAllNotes(Cur, now) :
                                     Len(h.notes) = Len(g.notes)]_vars

\* C27: the note a successful renameNote(id, newTitle) returns, and the note
\* its id resolves to afterwards, has the title newTitle
C27_RenamedNoteHasNewTitle ==
    [][(CallOf({"renameNote"}) /\ last'.ok) =>
           /\ last'.res # <<>>
           /\ last'.res[1].title = last'.args[2]
           /\ \A q \in getNoteById(Cur', now', last'.res[1].id) :
                  q.note # <<>> /\ q.note[1].title = last'.args[2]]_vars

\* the content updateNote is to write: the content given, or else the
\* content of the note, with the heading rule applied when a title is given
updatedContent(old, u) ==
    LET base == IF u.hasContent THEN u.content ELSE old
    IN  IF u.hasTitle THEN withHeading(base, u.title) ELSE base

\* C28: a successful updateNote on a note with a file leaves in the file, and
\* in the note it returns, exactly the content given when there is no title,
\* and with a title that content (or the note's content when none is given)
\* with the first line starting with '# ' replaced by '# ' + title, or with
\* that heading and a blank line put first when there is no such line
C28_UpdateWritesContent ==
    [][(CallOf({"updateNote"}) /\ last'.ok /\ isNotePlanAvailable(fs)) =>
           \E r \in getNoteById(Cur, now, last'.args[1]) :
               /\ r.note # <<>> /\ r.note[1].filePath # NoPath
               /\ fs'[r.note[1].filePath].content
                      = updatedContent(r.note[1].content, last'.args[2])
               /\ last'.res[1].content = updatedContent(r.note[1].content, last'.args[2])
               /\ \A p \in DOMAIN fs : p # r.note[1].filePath => fs'[p] = fs[p]]_vars

\* an updateNote with a title replaced the heading of a note that had one
C28_Witness ==
    /\ last.op = "updateNote" /\ last.ok /\ last.args[2].hasTitle
    /\ ~last.args[2].hasContent
    /\ last.res[1].filePath # NoPath
    /\ Split(last.res[1].content, "\n")[1] = sHash \o last.args[2].title
    /\ Len(Split(last.res[1].content, "\n")) = 2

\* an updateNote with a title and a content without heading put the heading
\* and a blank line before the content
C28_WitnessPrepended ==
    /\ last.op = "updateNote" /\ last.ok /\ last.args[2].hasTitle
    /\ last.args[2].hasContent
    /\ last.res[1].filePath # NoPath
    /\ last.res[1].content = sHash \o last.args[2].title \o sNL \o sNL \o last.args[2].content

\* the directory of a folder string, and of the folder beside it with a name
folderDir(folder) == getFileSystemPath(createNotePath("note", folder))
siblingDir(folder, name) ==
    LET slashes == {i \in 1..Len(folder) : folder[i] = "/"}
        parent == IF slashes = {} THEN <<>> ELSE SubSeq(folder, 1, SetMax(slashes))
    IN  folderDir(parent \o name)
\* the name is empty after trimming, contains '/', or is 'Calendar'
nameIsMalformed(name) ==
    \/ \A i \in 1..Len(name) : name[i] \in Whitespace
    \/ \E i \in 1..Len(name) : name[i] = "/"
    \/ Trim(name) = <<"C", "a", "l", "e", "n", "d", "a", "r">>
\* the failure the cases of the claim call for, in their order, "" for none;
\* onDisk: whether the three checks against the disk are made
renameFolderFailure(f, folder, name, onDisk) ==
    IF folder \in {sEmpty, sSlash} THEN "Forbidden"
    ELSE IF nameIsMalformed(name) THEN "InvalidName"
    ELSE IF ~onDisk THEN ""
    ELSE IF ~existsSync(f, folderDir(folder)) THEN "NotFound"
    ELSE IF ~isDirectory(f, folderDir(folder)) THEN "NotADirectory"
    ELSE IF existsSync(f, siblingDir(folder, Trim(name))) THEN "AlreadyExists"
    ELSE ""

\* C29 as stated: renameFolder fails with Forbidden for the root, with
\* InvalidName for a malformed name, with NotFound, NotADirectory or
\* AlreadyExists when the old directory is missing, is no directory, or the
\* destination exists, and leaves the filesystem and the cache as they were
C29_RenameFolderRejects ==
    [][CallOf({"renameFolder"}) =>
           LET e == renameFolderFailure(fs, last'.args[1], last'.args[2], TRUE)
           IN  e # "" => /\ ~last'.ok /\ last'.err = e
                         /\ fs' = fs
                         /\ UNCHANGED <<notesCache, lastCacheUpdate>>]_vars

\* C29 amended: the same for a folder string that does not name the
\* calendar, the three checks against the disk being made only when the
\* NotePlan directories are present
C29_RenameFolderRejectsOnDisk ==
    [][(CallOf({"renameFolder"}) /\ ~namesCalendar(last'.args[1])) =>
           LET e == renameFolderFailure(fs, last'.args[1], last'.args[2],
                                        isNotePlanAvailable(fs))
           IN  e # "" => /\ ~last'.ok /\ last'.err = e
                         /\ fs' = fs /\ notesDb' = notesDb
                         /\ UNCHANGED <<notesCache, lastCacheUpdate>>]_vars

\* a renameFolder to the name of an existing folder failed with AlreadyExists
C29_Witness ==
    /\ last.op = "renameFolder" /\ ~last.ok /\ last.err = "AlreadyExists"
    /\ isDirectory(fs, folderDir(last.args[1]))
    /\ existsSync(fs, siblingDir(last.args[1], Trim(last.args[2])))

\* a renameFolder of a file failed with NotADirectory
C29_WitnessNotADirectory ==
    /\ last.op = "renameFolder" /\ ~last.ok /\ last.err = "NotADirectory"
    /\ isFile(fs, folderDir(last.args[1]))

\* the operations that change notes, and those of them that leave the
\* content of every note alone
MutatingOps ==
    {"createNote", "createDailyNote", "updateNote", "editNote", "renameNote", "moveNote",
     "renameFolder", "createFolder"}
ContentKeepingOps == {"createNote", "createDailyNote", "moveNote", "renameFolder", "createFolder"}

\* C30: a successful createNote, createDailyNote, updateNote, editNote,
\* renameNote, moveNote, renameFolder or createFolder leaves getAllNotes
\* returning at least as many notes as before, and after those that rewrite
\* no content every note returned before is returned with the same content
C30_NoNoteIsLost ==
    [][(CallOf(MutatingOps) /\ last'.ok) =>
           \A g \in getAllNotes(Cur, now) : \A h \in getAllNotes(Cur', now') :
               /\ Len(h.notes) >= Len(g.notes)
               /\ last'.op \in ContentKeepingOps =>
                      \A n \in SeqRange(g.notes) :
                          \E m \in SeqRange(h.notes) : m.content = n.content]_vars

\* C31: the note a successful createNote, moveNote, renameNote or updateNote
\* returns has the id and the location of the note getNoteById returns for
\* that id on the next read
C31_ReturnedNoteIsReadBack ==
    [][(CallOf({"createNote", "moveNote", "renameNote", "updateNote"}) /\ last'.ok) =>
           /\ last'.res # <<>>
           /\ \A q \in getNoteById(Cur', now', last'.res[1].id) :
                  /\ q.note # <<>>
                  /\ q.note[1].id = last'.res[1].id
                  /\ q.note[1].location = last'.res[1].location]_vars

\* the category roots, and the names of the directories between a root and
\* a path below it
categoryRoots == {CALENDAR_PATH, NOTES_PATH}
between(root, p) == {p[i] : i \in (Len(root) + 1)..(Len(p) - 1)}
isHiddenName(name) == Len(name) > 0 /\ name[1] \in {".", "@"}
\* the files that are to appear as notes: regular files ending in .md or
\* .txt below a category root with no hidden directory on the way
noteFiles(f) ==
    {p \in DOMAIN f :
        /\ f[p].kind = "file"
        /\ \E e \in {<<".", "m", "d">>, <<".", "t", "x", "t">>} : EndsWith(p[Len(p)], e)
        /\ \E root \in categoryRoots :
               /\ IsPrefix(root, p) /\ Len(p) > Len(root)
               /\ \A name \in between(root, p) : ~isHiddenName(name)}
\* a file or a directory above it, below the root, cannot be read
blocked(f, p) ==
    \E n \in 1..Len(p) : ~f[SubSeq(p, 1, n)].readable

\* C32: a getAllNotes call that rebuilds the snapshot while a category root
\* exists returns exactly one note for each regular file ending in .md or
\* .txt below a category root that has no directory starting with '.' or '@'
\* on the way and can be read; a directory that is missing or cannot be read
\* adds no note and does not keep the other notes from being returned
C32_ScanFindsTheNoteFiles ==
    [][(CallOf({"getAllNotes"}) /\ last'.rescanned
          /\ \E root \in categoryRoots : existsSync(fs, root)) =>
           /\ {n.filePath : n \in SeqRange(last'.res)}
                  = {p \in noteFiles(fs) : ~blocked(fs, p)}
           /\ Len(last'.res) = Cardinality({p \in noteFiles(fs) : ~blocked(fs, p)})]_vars

----------------------------------------------------------------------------
(* The read operations over the snapshot: by title, by text, the links of   *)
(* a note, and the daily notes                                               *)

\* the characters of names and dates in the order of their UTF-16 code units
CodeUnits ==
    <<" ", "!", "$", "-", ".", "0", "1", "2", "3", "4", "5", "6", "7", "8", "9",
      "@", "A", "B", "C", "D", "E", "F", "G", "H", "I", "J", "K", "L", "M", "N",
      "O", "P", "Q", "R", "S", "T", "U", "V", "W", "X", "Y", "Z", "[", "]", "_",
      "a", "b", "c", "d", "e", "f", "g", "h", "i", "j", "k", "l", "m", "n", "o",
      "p", "q", "r", "s", "t", "u", "v", "w", "x", "y", "z">>
\* the same characters in the order of the root collation: spaces and
\* punctuation, symbols, digits, then the letters without regard to case
CollationOrder ==
    <<" ", "_", "-", "!", ".", "[", "]", "@", "$",
      "0", "1", "2", "3", "4", "5", "6", "7", "8", "9",
      "a", "b", "c", "d", "e", "f", "g", "h", "i", "j", "k", "l", "m", "n", "o",
      "p", "q", "r", "s", "t", "u", "v", "w", "x", "y", "z">>
UpperCase ==
    <<"A", "B", "C", "D", "E", "F", "G", "H", "I", "J", "K", "L", "M", "N", "O",
      "P", "Q", "R", "S", "T", "U", "V", "W", "X", "Y", "Z">>
LowerCase ==
    <<"a", "b", "c", "d", "e", "f", "g", "h", "i", "j", "k", "l", "m", "n", "o",
      "p", "q", "r", "s", "t", "u", "v", "w", "x", "y", "z">>
isUpper(c) == \E i \in 1..26 : UpperCase[i] = c
lowerOf(c) == IF isUpper(c) THEN LowerCase[CHOOSE i \in 1..26 : UpperCase[i] = c] ELSE c

\* s.toLowerCase()
toLowerCase(s) == [i \in 1..Len(s) |-> lowerOf(s[i])]

\* s.includes(q)
includes(s, q) == \E i \in 0..(Len(s) - Len(q)) : SubSeq(s, i + 1, i + Len(q)) = q

indexIn(order, c) == CHOOSE i \in 1..Len(order) : order[i] = c

\* x before y, for sequences of numbers compared element by element
keysLess(x, y) ==
    \E k \in 1..(Min(Len(x), Len(y)) + 1) :
        /\ SubSeq(x, 1, k - 1) = SubSeq(y, 1, k - 1)
        /\ \/ k > Len(x) /\ k <= Len(y)
           \/ k <= Len(x) /\ k <= Len(y) /\ x[k] < y[k]

\* a < b and a <= b for strings, as the relational operators compare them
stringLess(a, b) ==
    keysLess([i \in 1..Len(a) |-> indexIn(CodeUnits, a[i])],
             [i \in 1..Len(b) |-> indexIn(CodeUnits, b[i])])
stringLeq(a, b) == a = b \/ stringLess(a, b)

\* a.localeCompare(b) < 0: by the collation order of the letters first, and
\* between strings equal in that by the case of the first letter that
\* differs, lower case first
localeLess(a, b) ==
    LET ka == [i \in 1..Len(a) |-> indexIn(CollationOrder, lowerOf(a[i]))]
        kb == [i \in 1..Len(b) |-> indexIn(CollationOrder, lowerOf(b[i]))]
    IN  IF ka # kb THEN keysLess(ka, kb)
        ELSE \E k \in 1..Len(a) :
                 /\ SubSeq(a, 1, k - 1) = SubSeq(b, 1, k - 1)
                 /\ a[k] # b[k] /\ isUpper(b[k])

\* a sort of the daily notes that puts the oldest first
RECURSIVE sortByFilenameAsc(_)
InsertByFilenameAsc(x, s) ==
    LET idx == {i \in 1..Len(s) : ~localeLess(s[i].filename, x.filename)}
        k == IF idx = {} THEN Len(s) + 1 ELSE CHOOSE i \in idx : \A j \in idx : i <= j
    IN  SubSeq(s, 1, k - 1) \o <<x>> \o SubSeq(s, k, Len(s))
sortByFilenameAsc(s) ==
    IF s = <<>> THEN <<>> ELSE InsertByFilenameAsc(Head(s), sortByFilenameAsc(Tail(s)))

\* dailyNotes.sort((a, b) => dateB.localeCompare(dateA)): stable, the
\* greatest filename first
RECURSIVE sortByFilenameDesc(_)
InsertByFilename(x, s) ==
    LET idx == {i \in 1..Len(s) : ~localeLess(x.filename, s[i].filename)}
        k == IF idx = {} THEN Len(s) + 1 ELSE CHOOSE i \in idx : \A j \in idx : i <= j
    IN  SubSeq(s, 1, k - 1) \o <<x>> \o SubSeq(s, k, Len(s))
sortByFilenameDesc(s) ==
    IF s = <<>> THEN <<>> ELSE InsertByFilename(Head(s), sortByFilenameDesc(Tail(s)))

\* the parameters of getDailyNotes: an absent date is the empty string and
\* an absent limit is 0, as the code takes them
DailyParams(start_date, end_date, limit) ==
    [start_date |-> start_date, end_date |-> end_date, limit |-> limit]

\* a getDailyNotes that sorts the snapshot itself and not a copy of it
getDailyNotesInPlace(g, params) ==
    LET sorted == sortByFilenameDesc(g.notes)
    IN  Out([g.S EXCEPT !.notesCache = sorted], TRUE, "",
            SelectSeq(sorted, LAMBDA n : n.location.type = "calendar"))

getDailyNotesWith(g, params) ==
    LET calendarNotes == SelectSeq(g.notes, LAMBDA n : n.location.type = "calendar")
        sorted == sortByFilenameDesc(calendarNotes)
        fromStart ==
            IF params.start_date # sEmpty
            THEN SelectSeq(sorted, LAMBDA n :
                     stringLeq(StripDashes(params.start_date), n.filename))
            ELSE sorted
        toEnd ==
            IF params.end_date # sEmpty
            THEN SelectSeq(fromStart, LAMBDA n :
                     stringLeq(n.filename, StripDashes(params.end_date)))
            ELSE fromStart
        dailyNotes ==
            IF params.limit # 0 /\ params.limit > 0
            THEN SubSeq(toEnd, 1, Min(params.limit, Len(toEnd)))
            ELSE toEnd
    IN  Out(g.S, TRUE, "", dailyNotes)
getDailyNotes(S, t, params) == {getDailyNotesWith(g, params) : g \in getAllNotes(S, t)}

\* notes.filter(...) of searchNotes
searchNotesWith(g, query) ==
    LET lowerQuery == toLowerCase(query)
    IN  Out(g.S, TRUE, "",
            SelectSeq(g.notes, LAMBDA n :
                \/ includes(toLowerCase(n.title), lowerQuery)
                \/ includes(toLowerCase(n.content), lowerQuery)))
searchNotes(S, t, query) == {searchNotesWith(g, query) : g \in getAllNotes(S, t)}

\* a lookup by title that takes the last note with the title
findByTitleLast(notes, title) ==
    LET idx == {i \in 1..Len(notes) : notes[i].title = title}
    IN  IF idx = {} THEN <<>>
        ELSE <<notes[CHOOSE i \in idx : \A j \in idx : i >= j]>>

\* notes.find(note => note.title === title) || null: <<note>>, or <<>> for null
findByTitle(notes, title) ==
    LET idx == {i \in 1..Len(notes) : notes[i].title = title}
    IN  IF idx = {} THEN <<>>
        ELSE <<notes[CHOOSE i \in idx : \A j \in idx : i <= j]>>
getNoteByTitleWith(g, title) == [S |-> g.S, note |-> findByTitle(g.notes, title)]
getNoteByTitle(S, t, title) == {getNoteByTitleWith(g, title) : g \in getAllNotes(S, t)}

\* /\[\[([^\]]+)\]\]/ at position i of the content: the position of the
\* first closing bracket of the match, or 0 when there is no match at i
linkEndAt(content, i) ==
    IF i + 1 > Len(content) \/ content[i] # "[" \/ content[i + 1] # "["
    THEN 0
    ELSE LET closing == {j \in (i + 2)..Len(content) : content[j] = "]"}
         IN  IF closing = {} THEN 0
             ELSE LET j == SetMin(closing)
                  IN  IF j > i + 2 /\ j + 1 <= Len(content) /\ content[j + 1] = "]"
                      THEN j ELSE 0

\* content.matchAll(wikiLinkPattern): the link texts, from position i on
RECURSIVE linkTexts(_, _)
linkTexts(content, i) ==
    LET starts == {k \in i..Len(content) : linkEndAt(content, k) # 0}
    IN  IF starts = {} THEN <<>>
        ELSE LET k == SetMin(starts)
                 j == linkEndAt(content, k)
             IN  <<SubSeq(content, k + 2, j - 1)>> \o linkTexts(content, j + 2)

\* the loop of getLinkedNotes: each link text is looked up with
\* getNoteByTitle, which reads the notes anew
RECURSIVE resolveLinks(_, _, _)
resolveLinks(S, t, texts) ==
    IF texts = <<>> THEN {[S |-> S, links |-> <<>>]}
    ELSE UNION {{[S |-> rest.S,
                  links |-> <<[linkText |-> Head(texts), note |-> r.note]>> \o rest.links] :
                    rest \in resolveLinks(r.S, t, Tail(texts))} :
                r \in getNoteByTitle(S, t, Head(texts))}

getLinkedNotesWith(g, t, id) ==
    LET sourceNote == lookupById(g.notes, id)
    IN  IF sourceNote = <<>> THEN {Fail(g.S, "NotFound")}
        ELSE {Out(r.S, TRUE, "", r.links) :
                 r \in resolveLinks(g.S, t, linkTexts(sourceNote[1].content, 1))}
getLinkedNotes(S, t, id) ==
    UNION {getLinkedNotesWith(g, t, id) : g \in getAllNotes(S, t)}

----------------------------------------------------------------------------
(* The read scenario *)

nL == <<"l", ".", "m", "d">>
nA2 == <<"a", "2", ".", "m", "d">>
nDayBefore == <<"2", "0", "2", "5", "0", "9", "2", "7", ".", "m", "d">>
nDayAfter == <<"2", "0", "2", "5", "0", "9", "3", "0", ".", "t", "x", "t">>
nWeek == <<"2", "0", "2", "5", "-", "W", "4", "0", ".", "m", "d">>
\* a content with a link that resolves, one that does not, an empty pair of
\* brackets and the first link again
txtLinks ==
    <<"[", "[", "A", "]", "]", "[", "[", "q", "]", "]", "[", "[", "]", "]",
      "[", "[", "A", "]", "]">>
txtA2 == <<"#", " ", "A">>

fsDiaryDirs ==
    {<<>>, NOTEPLAN_BASE_PATH, CALENDAR_PATH, NOTES_PATH, Append(NOTES_PATH, dF)}
\* a tree with four calendar notes, one of them with links, and with two
\* notes titled A and a note that links to that title
fsDiary ==
    [p \in fsDiaryDirs \cup
           {Append(CALENDAR_PATH, nDayBefore), Append(CALENDAR_PATH, nDay),
            Append(CALENDAR_PATH, nDayAfter), Append(CALENDAR_PATH, nWeek),
            Append(NOTES_PATH, nA), Append(NOTES_PATH, nL),
            NOTES_PATH \o <<dF, nA2>>} |->
        IF p \in fsDiaryDirs THEN DirEntry
        ELSE IF p = Append(CALENDAR_PATH, nDayBefore) THEN FileEntry(txtDay, 100, 100)
        ELSE IF p = Append(CALENDAR_PATH, nDay) THEN FileEntry(txtLinks, 120, 120)
        ELSE IF p = Append(CALENDAR_PATH, nDayAfter) THEN FileEntry(txtB, 110, 110)
        ELSE IF p = Append(CALENDAR_PATH, nWeek) THEN FileEntry(txtB, 90, 90)
        ELSE IF p = Append(NOTES_PATH, nA) THEN FileEntry(txtA, 200, 150)
        ELSE IF p = Append(NOTES_PATH, nL) THEN FileEntry(txtLinks, 210, 210)
        ELSE FileEntry(txtA2, 220, 220)]

QueryInputs == {sEmpty, <<"a">>, <<"X">>}
TitleQueries == {<<"A">>, <<"a">>, <<"d">>}
DailyParamInputs ==
    {DailyParams(s, e, l) :
        s \in {sEmpty, <<"2", "0", "2", "5", "-", "0", "9", "-", "2", "8">>},
        e \in {sEmpty, <<"2", "0", "2", "5", "-", "0", "9", "-", "2", "8">>,
               <<"2", "0", "2", "5", "0", "9", "3", "0">>},
        l \in {0, 1, 2, 0 - 1}}

GetNoteByTitle ==
    /\ calls < MaxCalls
    /\ \E g \in getAllNotes(Cur, now) : \E title \in TitleQueries :
           LET r == getNoteByTitleWith(g, title)
           IN  Called("getNoteByTitle", <<title>>, Out(r.S, TRUE, "", r.note), g.rescanned)

SearchNotes ==
    /\ calls < MaxCalls
    /\ \E g \in getAllNotes(Cur, now) : \E query \in QueryInputs :
           Called("searchNotes", <<query>>, searchNotesWith(g, query), g.rescanned)

GetLinkedNotes ==
    /\ calls < MaxCalls
    /\ \E g \in getAllNotes(Cur, now) : \E id \in IdInputs(g.notes) :
           \E o \in getLinkedNotesWith(g, now, id) :
               Called("getLinkedNotes", <<id>>, o, g.rescanned)

GetDailyNotes ==
    /\ calls < MaxCalls
    /\ \E g \in getAllNotes(Cur, now) : \E params \in DailyParamInputs :
           Called("getDailyNotes", <<params>>, getDailyNotesWith(g, params), g.rescanned)

\* the read scenario: every read operation, the creation of daily notes, and
\* a clock that crosses the cache duration, on the trees and on a tree with
\* several daily notes and linked notes
ReadInit ==
    /\ fs \in InitialDisks \cup {fsDiary}
    /\ notesDb = notesDbInit
    /\ notesCache = <<>>
    /\ cacheIsDb = FALSE
    /\ lastCacheUpdate = 0
    /\ builtAt = 0
    /\ now = StartTime
    /\ last = NoCall
    /\ calls = 0
    /\ ticks = 0
    /\ exts = 0
    /\ twin = NoTwin
    /\ scan = NoScan

ReadNext ==
    \/ GetAllNotes
    \/ GetNoteById
    \/ GetNoteByTitle
    \/ SearchNotes
    \/ GetNotesByFolder
    \/ GetLinkedNotes
    \/ GetDailyNotes
    \/ CreateDailyNote
    \/ Wait

ReadSpec == ReadInit /\ [][ReadNext]_vars

----------------------------------------------------------------------------
\* the notes of a snapshot that a getDailyNotes call with these parameters
\* may return: the calendar notes whose filename is within the bounds given
withinBounds(note, params) ==
    /\ note.location.type = "calendar"
    /\ params.start_date # sEmpty =>
           stringLeq(StripDashes(params.start_date), note.filename)
    /\ params.end_date # sEmpty =>
           stringLeq(note.filename, StripDashes(params.end_date))
eligible(notes, params) == {n \in SeqRange(notes) : withinBounds(n, params)}

\* C33: getDailyNotes returns only calendar notes of the snapshot whose
\* filename lies within the bounds given (dashes stripped, compared as
\* strings), no note twice, in descending order of filename; it returns all
\* of them when the limit is absent, zero or negative, and the first limit
\* of them otherwise; a call that does not rebuild the cache leaves the
\* snapshot as it was
C33_DailyNotesFilteredSortedLimited ==
    [][(CallOf({"getDailyNotes"}) /\ last'.ok) =>
           LET params == last'.args[1]
               res == last'.res
               all == eligible(notesCache', params)
           IN  /\ SeqRange(res) \subseteq all
               /\ Cardinality(SeqRange(res)) = Len(res)
               /\ \A i, j \in 1..Len(res) :
                      i < j => ~stringLess(res[i].filename, res[j].filename)
               /\ Len(res) = IF params.limit > 0
                             THEN Min(params.limit, Cardinality(all))
                             ELSE Cardinality(all)
               /\ \A n \in all \ SeqRange(res) : \A i \in 1..Len(res) :
                      ~stringLess(res[i].filename, n.filename)
               /\ ~last'.rescanned => notesCache' = notesCache]_vars

\* a call with an end date and the limit 2 on the tree with four daily notes
\* returned the two latest of them, which the snapshot holds in another order
C33_Witness ==
    /\ last.op = "getDailyNotes" /\ last.ok
    /\ last.args[1].limit = 2 /\ last.args[1].end_date # sEmpty
    /\ Cardinality(eligible(notesCache, last.args[1])) = 4
    /\ Len(last.res) = 2
    /\ last.res[1].filename = <<"2", "0", "2", "5", "0", "9", "3", "0">>
    /\ \E i, j \in 1..Len(notesCache) :
           /\ i < j
           /\ notesCache[i] = last.res[2]
           /\ notesCache[j] = last.res[1]

----------------------------------------------------------------------------
\* a link of the form [[text]] in a content: between opening brackets at k
\* and closing brackets at j stands a text that is not empty and holds no
\* closing bracket
isLinkAt(content, k, j) ==
    /\ k + 2 < j
    /\ \A m \in (k + 2)..(j - 1) : content[m] # "]"
opening(content) ==
    {k \in 1..(Len(content) - 1) : content[k] = "[" /\ content[k + 1] = "["}
closing(content) ==
    {j \in 1..(Len(content) - 1) : content[j] = "]" /\ content[j + 1] = "]"}
linkEnds(content) ==
    {j \in closing(content) : \E k \in opening(content) : isLinkAt(content, k, j)}
\* links that overlap end at the same place: the one that starts first counts
linkStart(content, j) == SetMin({k \in opening(content) : isLinkAt(content, k, j)})
nthLinkEnd(content, i) ==
    CHOOSE j \in linkEnds(content) :
        Cardinality({e \in linkEnds(content) : e < j}) = i - 1
nthLinkText(content, i) ==
    LET j == nthLinkEnd(content, i)
    IN  SubSeq(content, linkStart(content, j) + 2, j - 1)

\* C34: getLinkedNotes fails with NotFound when the id resolves to no note
\* of the snapshot; otherwise it returns one pair for each [[text]] of the
\* note's content, in the order in which they stand and with repetitions,
\* whose second component is the first note of the snapshot with exactly
\* that title, or null when there is none
C34_LinksResolveByTitle ==
    [][CallOf({"getLinkedNotes"}) =>
           \A source \in {lookupById(notesCache', last'.args[1])} :
               IF source = <<>>
               THEN ~last'.ok /\ last'.err = "NotFound"
               ELSE \A content \in {source[1].content}, res \in {last'.res} :
                        /\ last'.ok
                        /\ Len(res) = Cardinality(linkEnds(content))
                        /\ \A i \in 1..Len(res) : \A text \in {nthLinkText(content, i)} :
                               LET titled == {m \in 1..Len(notesCache') :
                                                  notesCache'[m].title = text}
                               IN  /\ res[i].linkText = text
                                   /\ IF titled = {} THEN res[i].note = <<>>
                                      ELSE res[i].note = <<notesCache'[SetMin(titled)]>>]_vars

\* a call returned three links: the first and the third with the same text,
\* resolved to the first of two notes with that title, and the second
\* resolved to nothing
C34_Witness ==
    /\ last.op = "getLinkedNotes" /\ last.ok
    /\ Len(last.res) = 3
    /\ last.res[1].linkText = last.res[3].linkText
    /\ last.res[2].note = <<>>
    /\ last.res[1].note # <<>>
    /\ \E i, j \in 1..Len(notesCache) :
           /\ i < j
           /\ notesCache[i].title = last.res[1].linkText
           /\ notesCache[j].title = last.res[1].linkText
           /\ last.res[1].note[1] = notesCache[i]

\* a call for an id that resolves to nothing failed
C34_WitnessNotFound ==
    /\ last.op = "getLinkedNotes" /\ ~last.ok /\ last.err = "NotFound"
    /\ Len(notesCache) > 0

----------------------------------------------------------------------------
\* the directory a createFolder call is about, and the sets of notes that
\* getAllNotes can return in a state of the store
createdDir(folder) == getFileSystemPath(parseLocationString(folder))
isRootFolder(folder) == parseLocationString(folder).path = sSlash
noteSets(S, t) == {SeqRange(g.notes) : g \in getAllNotes(S, t)}
cacheUntouched ==
    /\ notesCache' = notesCache
    /\ cacheIsDb' = cacheIsDb
    /\ lastCacheUpdate' = lastCacheUpdate

\* C35 as stated: createFolder fails for the root and fails with
\* AlreadyExists when the directory is present; a call that succeeds has
\* made the directory and its missing parents, has left the cache alone, and
\* getAllNotes returns the same notes after it as before
C35_CreateFolderCreates ==
    [][(CallOf({"createFolder"}) /\ ~namesCalendar(last'.args[1])) =>
           \A dir \in {createdDir(last'.args[1])} :
               /\ isRootFolder(last'.args[1]) => ~last'.ok
               /\ (~isRootFolder(last'.args[1]) /\ isDirectory(fs, dir)) =>
                      ~last'.ok /\ last'.err = "AlreadyExists"
               /\ last'.ok =>
                      /\ \A q \in Prefixes(dir) : isDirectory(fs', q)
                      /\ cacheUntouched
                      /\ noteSets(Cur', now') = noteSets(Cur, now)]_vars

\* C35, amended: createFolder fails with InvalidLocation for a Calendar
\* string and with Forbidden for the root; when the NotePlan directories are
\* present it fails with AlreadyExists when something is at the path, and a
\* call that succeeds has added the directory and its missing parents to the
\* disk and nothing else; when they are not, the call succeeds and the disk
\* stays as it is; in every case the cache and the in-memory notes are left
\* alone, a failed call changes nothing, and getAllNotes returns the same
\* notes after the call as before
C35_CreateFolderOnDisk ==
    [][CallOf({"createFolder"}) =>
           \A folder \in {last'.args[1]} : \A dir \in {createdDir(folder)} :
               /\ cacheUntouched /\ notesDb' = notesDb
               /\ ~last'.ok => fs' = fs
               /\ noteSets(Cur', now') = noteSets(Cur, now)
               /\ IF namesCalendar(folder)
                  THEN ~last'.ok /\ last'.err = "InvalidLocation"
                  ELSE IF isRootFolder(folder)
                  THEN ~last'.ok /\ last'.err = "Forbidden"
                  ELSE IF ~isNotePlanAvailable(fs)
                  THEN last'.ok /\ fs' = fs
                  ELSE IF existsSync(fs, dir)
                  THEN ~last'.ok /\ last'.err = "AlreadyExists"
                  ELSE last'.ok =>
                           /\ DOMAIN fs' = DOMAIN fs \cup Prefixes(dir)
                           /\ \A q \in DOMAIN fs : fs'[q] = fs[q]
                           /\ \A q \in Prefixes(dir) : isDirectory(fs', q)]_vars

\* a call made a directory together with a parent that was missing, while
\* the cache held a snapshot
C35_Witness ==
    /\ last.op = "createFolder" /\ last.ok
    /\ isNotePlanAvailable(fs)
    /\ Len(notesCache) > 0
    /\ isDirectory(fs, createdDir(last.args[1]))
    /\ Len(createdDir(last.args[1])) = Len(NOTES_PATH) + 2
    /\ \A n \in SeqRange(notesCache) :
           ~IsPrefix(createdDir(last.args[1]), n.filePath)

\* a call succeeded while the NotePlan directories are absent, and made nothing
C35_WitnessFallback ==
    /\ last.op = "createFolder" /\ last.ok
    /\ ~isNotePlanAvailable(fs)
    /\ ~existsSync(fs, createdDir(last.args[1]))

----------------------------------------------------------------------------
ReadOps ==
    {"getAllNotes", "getNoteById", "getNoteByTitle", "searchNotes",
     "getNotesByFolder", "getLinkedNotes", "getDailyNotes"}

\* a snapshot is a rebuild from a disk and a list of in-memory notes: with
\* the NotePlan directories present it holds the parsed note of each note
\* file that can be read, once, newest first; without them it is the list
rebuiltFrom(f, db, notes, isDb) ==
    IF isNotePlanAvailable(f)
    THEN /\ ~isDb
         /\ {n.filePath : n \in SeqRange(notes)} = {p \in noteFiles(f) : ~blocked(f, p)}
         /\ Len(notes) = Cardinality({p \in noteFiles(f) : ~blocked(f, p)})
         /\ \A n \in SeqRange(notes) : n = parseNoteFile(f, n.filePath, n.location)
         /\ modifiedDescending(notes)
    ELSE notes = db /\ isDb

\* C36: a read operation leaves the disk and the in-memory notes as they
\* are; it leaves the cache as it is when the cache is valid, and otherwise
\* the cache it leaves is a rebuild: a snapshot loaded from that disk or
\* from the in-memory notes, stamped with the time of the call
C36_ReadsOnlyRebuildTheCache ==
    [][CallOf(ReadOps) =>
           /\ fs' = fs
           /\ notesDb' = notesDb
           /\ IF cacheValid(Cur, now)
              THEN cacheUntouched /\ ~last'.rescanned
              ELSE /\ last'.rescanned
                   /\ lastCacheUpdate' = now
                   /\ rebuiltFrom(fs, notesDb, notesCache', cacheIsDb')]_vars

\* the second read of a run came after the cache had expired and rebuilt it
C36_Witness ==
    /\ last.op \in ReadOps /\ last.rescanned
    /\ calls = 2
    /\ Len(notesCache) > 0
    /\ last.at >= StartTime + CACHE_DURATION
    /\ lastCacheUpdate = last.at

\* a read found the cache valid and left it: the snapshot is older than the call
C36_WitnessServed ==
    /\ last.op \in ReadOps /\ ~last.rescanned
    /\ Len(notesCache) > 0
    /\ lastCacheUpdate < last.at

----------------------------------------------------------------------------
(* The two stores side by side: the in-memory fallback store and the store  *)
(* on the filesystem are given the same calls at the same times            *)

TwinFolders == {sSlash, dF}

\* the second store returned from its call
TwinReturned(o) ==
    /\ twin' = [S |-> o.S, ok |-> o.ok, err |-> o.err, res |-> o.res]
    /\ UNCHANGED scan

\* the ids that both stores show: those of the notes the calls of the run made
sharedIds(g, h) == KnownIds(g.notes) \cap KnownIds(h.notes)

BothCreateNote ==
    /\ calls < MaxCalls
    /\ \E title \in TitleInputs, content \in ContentInputs, folder \in TwinFolders :
           \E o \in createNote(Cur, now, title, content, folder),
              o2 \in createNote(twin.S, now, title, content, folder) :
               /\ Returned("createNote", <<title, content, folder>>, o, FALSE)
               /\ TwinReturned(o2)

BothCreateDailyNote ==
    /\ calls < MaxCalls
    /\ \E g \in getAllNotes(Cur, now), h \in getAllNotes(twin.S, now) :
           \E date \in DateInputs, content \in ContentInputs :
               /\ Returned("createDailyNote", <<date, content>>,
                           createDailyNoteWith(g, now, date, content), g.rescanned)
               /\ TwinReturned(createDailyNoteWith(h, now, date, content))

BothUpdateNote ==
    /\ calls < MaxCalls
    /\ \E g \in getAllNotes(Cur, now), h \in getAllNotes(twin.S, now) :
           \E id \in sharedIds(g, h), u \in UpdateInputs :
               /\ Returned("updateNote", <<id, u>>, updateNoteWith(g, now, id, u), g.rescanned)
               /\ TwinReturned(updateNoteWith(h, now, id, u))

BothEditNote ==
    /\ calls < MaxCalls
    /\ \E g \in getAllNotes(Cur, now), h \in getAllNotes(twin.S, now) :
           \E id \in sharedIds(g, h), old \in OldTextInputs, new \in NewTextInputs,
              all \in BOOLEAN :
               \E o \in editNoteWith(g, now, id, old, new, all),
                  o2 \in editNoteWith(h, now, id, old, new, all) :
                   /\ Returned("editNote", <<id, old, new, all>>, o, g.rescanned)
                   /\ TwinReturned(o2)

\* the first store has no NotePlan directories and works on the in-memory
\* notes; the second has the directories, with no note in them yet
TwinInit ==
    /\ fs = fsMissing
    /\ notesDb = notesDbInit
    /\ notesCache = <<>>
    /\ cacheIsDb = FALSE
    /\ lastCacheUpdate = 0
    /\ builtAt = 0
    /\ now = StartTime
    /\ last = NoCall
    /\ calls = 0
    /\ ticks = 0
    /\ exts = 0
    /\ twin = [S |-> Store(fsEmpty, notesDbInit, <<>>, FALSE, 0, 0),
               ok |-> TRUE, err |-> "", res |-> <<>>]
    /\ scan = NoScan

TwinNext ==
    \/ BothCreateNote
    \/ BothCreateDailyNote
    \/ BothUpdateNote
    \/ BothEditNote
    \/ Tick

TwinSpec == TwinInit /\ [][TwinNext]_vars

TwinOps == {"createNote", "createDailyNote", "updateNote", "editNote"}

\* C37: a call made on both stores succeeds in both or fails in both, and
\* when it succeeds the two notes returned have the same id, the same title
\* and the same content
C37_FallbackMatchesFilesystem ==
    [][CallOf(TwinOps) =>
           /\ last'.ok = twin'.ok
           /\ last'.ok =>
                  /\ last'.res # <<>> /\ twin'.res # <<>>
                  /\ last'.res[1].id = twin'.res[1].id
                  /\ last'.res[1].title = twin'.res[1].title
                  /\ last'.res[1].content = twin'.res[1].content]_vars

----------------------------------------------------------------------------
(* The load of the notes step by step: loadNotesFromFileSystem and the      *)
(* recursion of scanNotesDirectory as a stack of directories, one step for  *)
(* each directory entered, each item looked at and each directory left      *)

\* a call of scanNotesDirectory: the directory, the location given with it,
\* whether readdirSync has returned, and the items the loop has yet to see
ScanFrame(dirPath, location) ==
    [dir |-> dirPath, location |-> location, open |-> FALSE, items |-> <<>>]

\* fs.readdirSync(dirPath) returns
readdirOk(f, dirPath) == isDirectory(f, dirPath) /\ f[dirPath].readable

\* a scan that starts on the same directory again after a failure to read it
onReadErrorRetry(sc) == sc

\* the catch of scanNotesDirectory: the call returns what it has
onReadError(sc) ==
    [sc EXCEPT !.stack = Tail(@), !.opened = Append(@, Head(sc.stack).dir)]

\* getAllNotes finds no valid cache and the directories present, and
\* loadNotesFromFileSystem starts with the calendar root
BeginLoad ==
    /\ calls < MaxCalls
    /\ scan.phase # "scanning"
    /\ ~cacheValid(Cur, now)
    /\ isNotePlanAvailable(fs)
    /\ scan' = [phase |-> "scanning",
                stack |-> <<ScanFrame(CALENDAR_PATH, createNotePath("calendar", sSlash))>>,
                roots |-> <<ScanFrame(NOTES_PATH, createNotePath("note", sSlash))>>,
                notes |-> <<>>, opened |-> <<>>, parsed |-> <<>>]
    /\ UNCHANGED <<fs, notesDb, notesCache, cacheIsDb, lastCacheUpdate, builtAt, now,
                   last, calls, ticks, exts, twin>>

\* getAllNotes serves the cache, or the in-memory notes when the directories
\* are not present: no scan
ReadWithoutScan ==
    /\ scan.phase # "scanning"
    /\ cacheValid(Cur, now) \/ ~isNotePlanAvailable(fs)
    /\ GetAllNotes

\* the head of scanNotesDirectory: existsSync and readdirSync
EnterDirectory ==
    /\ scan.phase = "scanning"
    /\ scan.stack # <<>>
    /\ ~Head(scan.stack).open
    /\ LET frame == Head(scan.stack)
       IN  IF ~existsSync(fs, frame.dir)
           THEN scan' = [scan EXCEPT !.stack = Tail(@)]
           ELSE IF ~readdirOk(fs, frame.dir)
           THEN scan' = onReadError(scan)
           ELSE \E items \in Perms(Children(fs, frame.dir)) :
                    scan' = [scan EXCEPT
                                !.stack = <<[frame EXCEPT !.open = TRUE, !.items = items]>>
                                              \o Tail(scan.stack),
                                !.opened = Append(@, frame.dir)]
    /\ UNCHANGED <<fs, notesDb, notesCache, cacheIsDb, lastCacheUpdate, builtAt, now,
                   last, calls, ticks, exts, twin>>

\* one turn of the for loop: a note file is parsed, a directory that is not
\* skipped is scanned by a call of its own, anything else is passed over
ScanItem ==
    /\ scan.phase = "scanning"
    /\ scan.stack # <<>>
    /\ Head(scan.stack).open
    /\ Head(scan.stack).items # <<>>
    /\ LET frame == Head(scan.stack)
           item == Head(frame.items)
           name == basenameOf(item)
           rest == <<[frame EXCEPT !.items = Tail(@)]>> \o Tail(scan.stack)
       IN  IF isFile(fs, item) /\ isNoteFileName(name)
           THEN scan' = [scan EXCEPT
                            !.stack = rest,
                            !.parsed = Append(@, item),
                            !.notes = IF parseOk(fs, item)
                                      THEN Append(@, parseNoteFile(fs, item, frame.location))
                                      ELSE @]
           ELSE IF isDirectory(fs, item) /\ ~isSkippedDirName(name)
           THEN LET subPath == IF frame.location.path = sSlash THEN name
                               ELSE frame.location.path \o sSlash \o name
                IN  scan' = [scan EXCEPT
                                !.stack = <<ScanFrame(item,
                                              createNotePath(frame.location.type, subPath))>>
                                              \o rest]
           ELSE scan' = [scan EXCEPT !.stack = rest]
    /\ UNCHANGED <<fs, notesDb, notesCache, cacheIsDb, lastCacheUpdate, builtAt, now,
                   last, calls, ticks, exts, twin>>

\* the loop is over: scanNotesDirectory returns
LeaveDirectory ==
    /\ scan.phase = "scanning"
    /\ scan.stack # <<>>
    /\ Head(scan.stack).open
    /\ Head(scan.stack).items = <<>>
    /\ scan' = [scan EXCEPT !.stack = Tail(@)]
    /\ UNCHANGED <<fs, notesDb, notesCache, cacheIsDb, lastCacheUpdate, builtAt, now,
                   last, calls, ticks, exts, twin>>

\* the scan of the calendar root has returned: the scan of the notes root
NextRoot ==
    /\ scan.phase = "scanning"
    /\ scan.stack = <<>>
    /\ scan.roots # <<>>
    /\ scan' = [scan EXCEPT !.stack = <<Head(scan.roots)>>, !.roots = Tail(@)]
    /\ UNCHANGED <<fs, notesDb, notesCache, cacheIsDb, lastCacheUpdate, builtAt, now,
                   last, calls, ticks, exts, twin>>

\* both scans have returned: the notes are sorted, the cache is set and
\* getAllNotes returns
FinishLoad ==
    /\ scan.phase = "scanning"
    /\ scan.stack = <<>>
    /\ scan.roots = <<>>
    /\ LET notes == sortByModifiedDesc(scan.notes)
           S == [Cur EXCEPT !.notesCache = notes, !.cacheIsDb = FALSE,
                            !.lastCacheUpdate = now, !.builtAt = now]
       IN  Returned("getAllNotes", <<>>, Out(S, TRUE, "", notes), TRUE)
    /\ scan' = [scan EXCEPT !.phase = "done"]
    /\ UNCHANGED twin

\* the clock moves between calls
WaitBetweenCalls == scan.phase # "scanning" /\ Wait

ScanRunInit ==
    /\ fs \in InitialDisks \cup {fsLocked, fsNoCalendar, fsDiary}
    /\ notesDb = notesDbInit
    /\ notesCache = <<>>
    /\ cacheIsDb = FALSE
    /\ lastCacheUpdate = 0
    /\ builtAt = 0
    /\ now = StartTime
    /\ last = NoCall
    /\ calls = 0
    /\ ticks = 0
    /\ exts = 0
    /\ twin = NoTwin
    /\ scan = NoScan

ScanRunNext ==
    \/ BeginLoad
    \/ ReadWithoutScan
    \/ EnterDirectory
    \/ ScanItem
    \/ LeaveDirectory
    \/ NextRoot
    \/ FinishLoad
    \/ WaitBetweenCalls

\* a load that has started runs on: the service is one synchronous thread,
\* and nothing but the load itself takes its next step
LoadStep == EnterDirectory \/ ScanItem \/ LeaveDirectory \/ NextRoot \/ FinishLoad
ScanRunSpec == ScanRunInit /\ [][ScanRunNext]_vars /\ WF_vars(LoadStep)

\* C38, for the load of the notes: a load that has started ends, with a
\* result; on its way no directory is read twice and no file is parsed
\* twice; and the result is one that the scan of the two roots yields, with
\* a note for each note file that can be read whatever else cannot
noRepeats(q) == \A i, j \in 1..Len(q) : q[i] = q[j] => i = j
C38_LoadTerminatesOnce ==
    /\ (scan.phase = "scanning") ~> (scan.phase = "done")
    /\ [](noRepeats(scan.opened) /\ noRepeats(scan.parsed))
    /\ [][(scan.phase = "scanning" /\ scan'.phase = "done") =>
              /\ last'.ok /\ last'.op = "getAllNotes"
              /\ last'.res \in scanBothRoots(fs)
              /\ {n.filePath : n \in SeqRange(last'.res)}
                     = {p \in noteFiles(fs) : ~blocked(fs, p)}]_vars

\* a load ended on the tree with a file and a directory that cannot be read:
\* both were tried, and the note beside them was returned
C38_Witness ==
    /\ scan.phase = "done"
    /\ last.op = "getAllNotes" /\ last.ok
    /\ \E i \in 1..Len(scan.opened) : ~fs[scan.opened[i]].readable
    /\ \E i \in 1..Len(scan.parsed) : ~fs[scan.parsed[i]].readable
    /\ Len(last.res) = 1

====
